---- MODULE Spec2Model ----
(***************************************************************************)
(* Conversation checkpoint and streaming core of AI-FIX.                   *)
(*                                                                         *)
(* Three implementations of the same turn are modelled side by side:       *)
(*   "MC1"  MemoryChain with saveResponse      (src/unnamed/part_001)      *)
(*   "MC2"  MemoryChain with inlined commit    (src/unnamed/part_002)      *)
(*   "CB"   ChatBot.chat, chain path           (src/src/heart/chatbot.ts)  *)
(* and, in a specification of its own, ChatBot.chat's agent path, which    *)
(* forwards the fragments of Agent.stream (src/src/heart/agent.ts).        *)
(*                                                                         *)
(* A text is a sequence of tokens; concatenation of strings is \o.  The    *)
(* literals of the source ("User: ", "\n\n", ...) are tokens of their own. *)
(***************************************************************************)
EXTENDS Integers, Sequences, FiniteSets, TLC

\* ------------------------------------------------------------------ bounds
MaxTurns == 2     \* turns started in one behaviour
MaxFrags == 2     \* fragments the generation collaborator yields in one turn
MaxDocs == 3      \* documents handed to the vector store in one behaviour

Slots == {1, 2}
Threads == {"t1", "t2"}
Impls == {"MC1", "MC2", "CB"}
Inputs == {<<"m1">>, <<"m2">>}
FragPool == {<<"a", " ">>, <<"b", " ">>}
Responses == {<<>>, <<"r1">>}
Keys == {"input", "message"}

\* The turns a caller runs at once, and the threads it runs them on.
SlotsOf(m) == IF m = "serial" THEN {1} ELSE Slots
ThreadsOf(m) == IF m = "isolated" THEN Threads ELSE {"t1"}

\* Two callers, one per thread: each runs its turns in its own slot, one after
\* another, and sends texts no other caller sends.
SlotThread(s) == IF s = 1 THEN "t1" ELSE "t2"
ThreadText(t) == IF t = "t1" THEN <<"m1">> ELSE <<"m2">>
ThreadFrag(t) == IF t = "t1" THEN <<"a", " ">> ELSE <<"b", " ">>

RECURSIVE SeqsUpTo(_, _)
SeqsUpTo(S, n) ==
    IF n = 0 THEN {<<>>}
    ELSE LET shorter == SeqsUpTo(S, n - 1)
         IN  shorter \cup {Append(q, x) : q \in {r \in shorter : Len(r) = n - 1}, x \in S}

\* ------------------------------------------------------------------- texts
\* Array.prototype.join: the elements separated by sep.
RECURSIVE join(_, _)
join(parts, sep) ==
    IF Len(parts) = 0 THEN <<>>
    ELSE IF Len(parts) = 1 THEN parts[1]
    ELSE parts[1] \o sep \o join(Tail(parts), sep)

\* text contains part as a contiguous piece (String.prototype.includes).
Includes(text, part) ==
    \E i \in 0..(Len(text) - Len(part)) :
        \A j \in 1..Len(part) : text[i + j] = part[j]

IsPrefix(p, q) ==
    /\ Len(p) <= Len(q)
    /\ \A i \in 1..Len(p) : p[i] = q[i]

\* ---------------------------------------------------------------- messages
HumanMessage(content) == [role |-> "user", content |-> content]
AIMessage(content) == [role |-> "assistant", content |-> content]

\* Faulty variant: whatever is not a HumanMessage is taken for the assistant's.
RoleLabelNoSystem(msg) == IF msg.role = "user" THEN "User: " ELSE "Assistant: "
RoleLabel(msg) ==
    IF msg.role = "user" THEN "User: "
    ELSE IF msg.role = "assistant" THEN "Assistant: "
    ELSE "System: "

messagesToHistoryText(messages) ==
    join([i \in 1..Len(messages) |-> <<RoleLabel(messages[i])>> \o messages[i].content],
         <<"\n\n">>)

\* ------------------------------------------------------------- checkpoints
\* The value get returns for a thread that has no checkpoint.
NoCheckpoint ==
    [present |-> FALSE, v |-> 0, messages |-> <<>>, channel_version |-> 0,
     id |-> <<>>, ts |-> 0]

\* Faulty variant: every turn uses the configuration of one thread.
configShared(thread_id) == "t1"
\* config = { configurable: { thread_id } }: the key get and put work on.
configOf(thread_id) == thread_id

\* historyMessages = checkpoint.channel_values.messages, [] without checkpoint
historyOf(checkpoint) ==
    IF checkpoint.present THEN checkpoint.messages ELSE <<>>

\* Faulty variant: the version is carried over without the increment.
nextVersionStale(checkpoint) == IF checkpoint.present THEN checkpoint.v ELSE 0
\* (checkpoint?.v || 0) + 1
nextVersion(checkpoint) ==
    (IF checkpoint.present THEN checkpoint.v ELSE 0) + 1

\* Faulty variant: the history is not spread into the new list.
newMessagesNoHistory(historyMessages, userInputText, responseText) ==
    <<HumanMessage(userInputText), AIMessage(responseText)>>
\* [...historyMessages, userMessage, aiMessage]
newMessagesOf(historyMessages, userInputText, responseText) ==
    historyMessages \o <<HumanMessage(userInputText), AIMessage(responseText)>>

\* Faulty variant: id and timestamp are minted anew on every commit.
newCheckpointFresh(checkpoint, thread_id, newMessages, now, later) ==
    [present |-> TRUE,
     v |-> nextVersion(checkpoint),
     messages |-> newMessages,
     channel_version |-> Len(newMessages),
     id |-> <<thread_id, now>>,
     ts |-> later]
\* Faulty variant: historyMessages.push(userMessage, aiMessage).
historyPushedInPlace(historyMessages, newMessages) == newMessages
\* The array read at the start of the turn, as it is after the commit:
\* newMessages is a new array and newCheckpoint a new object ({...checkpoint}),
\* what get returned is only read.
historyAfterCommit(historyMessages, newMessages) == historyMessages

\* Whether the clock's value changed since the reading before.
Ticks == {0, 1}
\* Date.now(), new Date(): the value of a reading of the clock, given the value
\* of the reading before it (0: the clock has not been read).  The clock does
\* not go back; readings are compared only for order and equality, so the
\* first reading is 1 and a later one is the last one or the one after it.
readClock(last, tick) == IF last = 0 THEN 1 ELSE last + tick

\* checkpoint?.id || ... and checkpoint?.ts || ...: the value of the prior
\* checkpoint is kept when it is truthy.
keepsId(checkpoint) == checkpoint.present /\ checkpoint.id # <<>>
keepsTs(checkpoint) == checkpoint.present /\ checkpoint.ts # 0

\* The last reading of the clock after the line id: ... and after the line
\* ts: ... of newCheckpoint; the right side of || is evaluated, and the clock
\* read, only when the left side is falsy.
clockAfterId(checkpoint, last, tick) ==
    IF keepsId(checkpoint) THEN last ELSE readClock(last, tick)
clockAfterTs(checkpoint, last, tick) ==
    IF keepsTs(checkpoint) THEN last ELSE readClock(last, tick)

\* The checkpoint value handed to memory.put; now and later are the readings
\* of `${thread_id}-${Date.now()}` and of new Date().toISOString().
newCheckpoint(checkpoint, thread_id, newMessages, now, later) ==
    [present |-> TRUE,
     v |-> nextVersion(checkpoint),
     messages |-> newMessages,
     channel_version |-> Len(newMessages),
     id |-> IF keepsId(checkpoint) THEN checkpoint.id ELSE <<thread_id, now>>,
     ts |-> IF keepsTs(checkpoint) THEN checkpoint.ts ELSE later]

\* Faulty variant: no guard against an empty response.
shouldSaveAlways(responseText) == TRUE
\* if (!responseText || responseText.length === 0) return
shouldSave(responseText) == Len(responseText) > 0

\* Faulty variant: the chunk yielded last is not part of the text.
joinChunksDropLast(chunks) ==
    join(SubSeq(chunks, 1, Len(chunks) - 1), <<>>)
\* chunks.join('')
joinChunks(chunks) == join(chunks, <<>>)

\* Faulty variant: the text accumulated so far is yielded instead of the chunk.
yieldAccumulated(forwarded, chunks, chunk) == Append(forwarded, joinChunks(chunks))
\* chunks.push(chunk); yield chunk: what the caller has received after the
\* yield, chunks being the array after the push.
yieldChunk(forwarded, chunks, chunk) == Append(forwarded, chunk)

\* Faulty variant: the generator has no return statement.
streamReturnVoid(chunks) == <<>>
\* return chunks.join(''): the final value of a stream that ended normally.
streamReturnValue(chunks) == joinChunks(chunks)

\* Faulty variant: the commit follows the loop instead of sitting in finally.
persistsOnExitNoFinally(exit) == exit = "complete"
\* try { ... } finally { save }: the commit runs on every exit of the loop.
persistsOnExit(exit) == exit \in {"complete", "failed", "abandoned"}

\* Faulty variant: a catch block that swallows the error.
observedErrorSwallowed(exit) == "none"
\* What the caller of a streaming turn observes once the finally block is done:
\* the error raised inside the loop propagates after the commit.
observedError(exit) == IF exit = "failed" THEN "GenerationError" ELSE "none"

\* Faulty variant: the catch block of invoke drops the error.
invokeErrorSwallowed(exit) == "none"
\* What the caller of invoke observes: an error of chain.invoke leaves invoke
\* as it is (part_001: no handler; part_002: catch (error) { throw error }).
invokeError(exit) == IF exit = "failed" THEN "GenerationError" ELSE "none"

\* Faulty variant: the commit is wrapped in a handler that only logs.
storeFailureLogged(kind, exit) ==
    IF kind = "stream" THEN observedError(exit) ELSE invokeError(exit)
\* What the caller observes when the awaited memory.put rejects.  No handler is
\* around the commit: in stream the rejection is thrown inside finally and
\* replaces the completion of the try block (normal end, generation error, or
\* the consumer's return()); in invoke it leaves the function (part_002
\* rethrows it from its catch).
storeFailureError(kind, exit) == "StoreError"

\* The checkpoint the commit is built on.  saveResponse (MC1) reads the store
\* again; the inlined variants (MC2, CB) reuse the checkpoint read at the start.
commitBase(variant, initial, current) ==
    IF variant = "MC1" THEN current ELSE initial

\* The calls of memory.get the commit makes: saveResponse (MC1) reads the
\* store again, the inlined variants (MC2, CB) do not.
getsAtCommit(variant) == IF variant = "MC1" THEN 1 ELSE 0

\* `${historyText}\n\nUser: ${input}`
withUserTurn(historyText, text) == historyText \o <<"\n\n", "User: ">> \o text

\* JSON.stringify(restInput) of the one-key record {key: text}
jsonOfInput(key, text) == <<"{\"", key, "\":\"">> \o text \o <<"\"}">>

\* The record handed to chain.invoke, as (key, text).
invokeInputOf(variant, key, text, historyText) ==
    LET k == IF variant = "MC1" /\ key = "input" /\ Len(text) > 0
             THEN "message" ELSE key
    IN  [key |-> k,
         text |-> IF Len(historyText) > 0 /\ k = "message" /\ Len(text) > 0
                  THEN withUserTurn(historyText, text)
                  ELSE text]

\* The text persisted as the user message of a one-shot turn.
invokeUserInputText(variant, key, text, invokeInput) ==
    IF invokeInput.key = "message" /\ Len(invokeInput.text) > 0
    THEN invokeInput.text
    ELSE IF variant = "MC1" /\ key = "input" /\ Len(text) > 0
    THEN text
    ELSE jsonOfInput(key, text)

\* ------------------------------------------------------------------- state
VARIABLES
    impl,      \* which implementation the object under test is
    mode,      \* "serial": the caller serializes the turns of a thread
    store,     \* checkpoint store: thread -> checkpoint (what get returns)
    task,      \* the turns in flight, one per slot
    turns,     \* turns started so far
    ledger,    \* per thread, input, user text and response of each turn whose put completed
    clock,     \* the last reading of Date.now() / new Date(); 0 before the first
    vectorStore,             \* Chain/Agent.vectorStore is set
    times_of_added_context,  \* Chain/Agent.times_of_added_context
    documents,               \* documents the vector store has received
    ctxCall,                 \* the addContext call in flight
    reconstruction,          \* the History Reconstructor's last run
    theAgent,                \* an Agent instance: its private fields
    agentCalls,              \* the invoke and stream calls in flight on it
    registry,                \* a ToolRegistry: built or not, and its tools
    regCall,                 \* the last call on the registry and how it ended
    structCall,              \* the structure() call in flight
    wordStream,              \* an Agent.stream call yielding the words of a response
    chatBot                  \* a ChatBot: its props, chain, agent and last chat call

coreVars == <<impl, mode, store, task, turns, ledger, clock>>
ctxVars == <<vectorStore, times_of_added_context, documents, ctxCall>>
trVars == <<reconstruction>>
agVars == <<theAgent, agentCalls>>
regVars == <<registry, regCall>>
stVars == <<structCall>>
wsVars == <<wordStream>>
cbVars == <<chatBot>>
nonCoreVars == <<ctxVars, trVars, agVars, regVars, stVars, wsVars, cbVars>>
nonCtxVars == <<coreVars, trVars, agVars, regVars, stVars, wsVars, cbVars>>
nonTrVars == <<coreVars, ctxVars, agVars, regVars, stVars, wsVars, cbVars>>
nonAgVars == <<coreVars, ctxVars, trVars, regVars, stVars, wsVars, cbVars>>
nonRegVars == <<coreVars, ctxVars, trVars, agVars, stVars, wsVars, cbVars>>
nonStVars == <<coreVars, ctxVars, trVars, agVars, regVars, wsVars, cbVars>>
nonWsVars == <<coreVars, ctxVars, trVars, agVars, regVars, stVars, cbVars>>
nonCbVars == <<coreVars, ctxVars, trVars, agVars, regVars, stVars, wsVars>>
vars == <<coreVars, ctxVars, trVars, agVars, regVars, stVars, wsVars, cbVars>>

\* What a key of the props object holds: the key is absent, it is present
\* with the value undefined, or it is present with a value.
Absent == "absent"
Undefined == "undefined"
Given == "given"

\* No ChatBot has been constructed.
noChatBot ==
    [built |-> FALSE,
     props |-> [memory |-> Absent, chain |-> Absent, llm |-> Absent,
                prompt |-> Absent, tools |-> Absent],
     memory |-> Undefined, chain |-> Undefined, agent |-> Undefined,
     chat |-> "none", error |-> "none"]

\* No Agent.stream call is yielding words.
noWordStream ==
    [pc |-> "idle", class |-> "none", content |-> <<>>, words |-> <<>>,
     yielded |-> <<>>]

\* No structure() call is running.
noStructCall ==
    [pc |-> "idle", data |-> "none", llm |-> "none", retries |-> 0, i |-> 0,
     attempts |-> <<>>, result |-> "none", error |-> "none"]

\* No ToolRegistry has been constructed; no call has been made on it.
noRegistry == [built |-> FALSE, tools |-> <<>>]
noRegCall == [op |-> "none", outcome |-> "none", error |-> "none"]

noReconstruction ==
    [pc |-> "idle", checkpoint |-> NoCheckpoint, historyMessages |-> <<>>,
     historyText |-> <<>>, error |-> "none"]

\* new Agent({tools, schema}): no context, the schema flag set.
NoTool == "undefined"
newAgent(class, tools, schema) ==
    [class |-> class, tools |-> tools, schema |-> schema,
     vectorStore |-> FALSE, rag_tool |-> NoTool,
     times_of_added_context |-> 0, should_use_schema |-> TRUE]

MaxAgentCalls == 2
AgentCalls == 1..MaxAgentCalls
idleAgentCall ==
    [kind |-> "none", pc |-> "idle", debug |-> FALSE, flagRead |-> "none",
     response |-> "none", words |-> 0, yielded |-> 0, exit |-> "none",
     hadStore |-> FALSE]

idleCall ==
    [pc |-> "idle", surface |-> "none", data |-> <<>>, hadStore |-> FALSE,
     inner |-> "none", outer |-> "none"]

idleTask ==
    [pc |-> "idle", kind |-> "none", thread |-> "none", input |-> <<>>,
     key |-> "none", checkpoint |-> NoCheckpoint, historyMessages |-> <<>>,
     genInput |-> [key |-> "none", text |-> <<>>],
     frags |-> <<>>, fails |-> FALSE, chunks |-> <<>>, forwarded |-> <<>>,
     exit |-> "none", userInputText |-> <<>>, responseText |-> <<>>,
     base |-> NoCheckpoint, gets |-> 0, puts |-> 0, putCheckpoint |-> NoCheckpoint,
     built |-> NoCheckpoint,
     putStep |-> 0, putHint |-> 0, putError |-> "none", error |-> "none",
     result |-> <<>>, requested |-> 0, genOpen |-> FALSE]

\* Faulty variant: the loop leaves chain.stream's sequence open when the
\* consumer closes the generator.
genOpenAfterExitLeaked(exit) == exit = "abandoned"
\* for await (const chunk of this.chain.stream(...)): leaving the loop, by the
\* end of the sequence, by its error or by the consumer's return(), closes the
\* sequence.
genOpenAfterExit(exit) == FALSE

\* A caller that serializes its turns runs them in one slot, one after another.
MayStart(s, t) ==
    /\ s \in SlotsOf(mode)
    /\ t \in ThreadsOf(mode)
    /\ mode = "isolated" => t = SlotThread(s)
    /\ task[s].pc = "idle"
    /\ turns < MaxTurns

\* The texts the caller of thread t sends, and the fragments generation
\* produces for them.
MaySend(t, text) == mode = "isolated" => text = ThreadText(t)
MayYield(t, fr) == mode = "isolated" => \A i \in 1..Len(fr) : fr[i] = ThreadFrag(t)

InitCommon ==
    /\ store = [t \in Threads |-> NoCheckpoint]
    /\ task = [s \in Slots |-> idleTask]
    /\ turns = 0
    /\ ledger = [t \in Threads |-> <<>>]
    /\ clock = 0
    /\ vectorStore = FALSE
    /\ times_of_added_context = 0
    /\ documents = 0
    /\ ctxCall = idleCall
    /\ reconstruction = noReconstruction
    /\ theAgent = newAgent("heart", <<"dummy">>, FALSE)
    /\ agentCalls = [c \in AgentCalls |-> idleAgentCall]
    /\ registry = noRegistry
    /\ regCall = noRegCall
    /\ structCall = noStructCall
    /\ wordStream = noWordStream
    /\ chatBot = noChatBot

Init ==
    /\ impl \in Impls
    /\ mode = "serial"
    /\ InitCommon

\* --------------------------------------------------------- streaming turn
\* A turn that ends because its awaited memory.get rejected: the store's
\* error leaves the function, generation is not called (exit stays "none")
\* and nothing is put.
getFailed(kind, t, key, text) ==
    [idleTask EXCEPT !.pc = "done", !.kind = kind, !.gets = 1, !.thread = t,
                     !.input = text, !.key = key, !.error = "StoreError"]

\* stream(): get the checkpoint, build the transcript, open chain.stream; or
\* the get rejects (getOk false) and the first next() rejects with its error.
StreamStart(s, t, text, fr, getOk) ==
    /\ MayStart(s, t)
    /\ MaySend(t, text)
    /\ MayYield(t, fr)
    /\ ~getOk => fr = <<>>
    /\ LET checkpoint == store[configOf(t)]
           historyMessages == historyOf(checkpoint)
           allMessages == Append(historyMessages, HumanMessage(text))
           historyText == messagesToHistoryText(allMessages)
       IN  task' = [task EXCEPT ![s] =
                IF getOk
                THEN [idleTask EXCEPT
                                 !.pc = "streaming", !.kind = "stream", !.gets = 1,
                                 !.thread = t, !.input = text, !.key = "input",
                                 !.checkpoint = checkpoint,
                                 !.historyMessages = historyMessages,
                                 !.genInput = [key |-> "message",
                                               text |-> withUserTurn(historyText, text)],
                                 !.frags = fr, !.genOpen = TRUE]
                ELSE getFailed("stream", t, "input", text)]
    /\ turns' = turns + 1
    /\ UNCHANGED <<impl, mode, store, ledger, clock, nonCoreVars>>

\* The consumer closes the generator of stream() or chat() before its first
\* next(): the body never runs, on the chain path and on the agent path.
StreamReturnUnstarted(s, t, text) ==
    /\ MayStart(s, t)
    /\ MaySend(t, text)
    /\ task' = [task EXCEPT ![s] =
            [idleTask EXCEPT !.pc = "done",
                             !.kind = IF impl = "CBA" THEN "agent" ELSE "stream",
                             !.thread = t,
                             !.input = text, !.key = "input",
                             !.checkpoint = store[configOf(t)],
                             !.exit = "abandoned"]]
    /\ turns' = turns + 1
    /\ UNCHANGED <<impl, mode, store, ledger, clock, nonCoreVars>>

\* One round of the loop: chunks.push(chunk); yield chunk.
StreamNext(s) ==
    /\ task[s].pc = "streaming"
    /\ Len(task[s].chunks) < Len(task[s].frags)
    /\ LET chunk == task[s].frags[Len(task[s].chunks) + 1]
       IN  task' = [task EXCEPT ![s].chunks = Append(@, chunk),
                                ![s].requested = @ + 1,
                                ![s].forwarded =
                                    yieldChunk(@, Append(task[s].chunks, chunk), chunk)]
    /\ UNCHANGED <<impl, mode, store, turns, ledger, clock, nonCoreVars>>

\* chain.stream has no further fragment: it finishes or raises.
StreamExhausted(s, fl) ==
    /\ task[s].pc = "streaming"
    /\ Len(task[s].chunks) = Len(task[s].frags)
    /\ task' = [task EXCEPT ![s].pc = "finally", ![s].fails = fl,
                            ![s].requested = @ + 1,
                            ![s].genOpen =
                                genOpenAfterExit(IF fl THEN "failed" ELSE "complete"),
                            ![s].exit = IF fl THEN "failed" ELSE "complete"]
    /\ UNCHANGED <<impl, mode, store, turns, ledger, clock, nonCoreVars>>

\* The consumer calls return() while the generator is suspended at yield.
StreamReturn(s) ==
    /\ task[s].pc = "streaming"
    /\ Len(task[s].chunks) >= 1
    /\ task' = [task EXCEPT ![s].pc = "finally", ![s].exit = "abandoned",
                            ![s].genOpen = genOpenAfterExit("abandoned")]
    /\ UNCHANGED <<impl, mode, store, turns, ledger, clock, nonCoreVars>>

\* The turn is over for its caller.
Outcome(t) ==
    [t EXCEPT !.pc = "done",
              !.error = IF t.kind = "stream" THEN observedError(t.exit)
                        ELSE invokeError(t.exit),
              !.result = IF t.exit = "complete"
                         THEN (IF t.kind = "stream" THEN streamReturnValue(t.chunks)
                               ELSE t.responseText)
                         ELSE <<>>]

\* The commit up to its await of memory.put, for a turn t whose texts are
\* set: saveResponse (MC1) gets the checkpoint (current) again, the inlined
\* variants use the one read at the start; newMessages and newCheckpoint are
\* built, reading the clock.  The result is the turn and the clock's last
\* reading.
beginCommit(t, variant, current, last, tick1, tick2) ==
    LET base == commitBase(variant, t.checkpoint, current)
        newMessages == newMessagesOf(t.historyMessages, t.userInputText,
                                     t.responseText)
        now == clockAfterId(base, last, tick1)
        later == clockAfterTs(base, now, tick2)
    IN  [task |-> [t EXCEPT !.pc = "saving", !.gets = @ + getsAtCommit(variant),
                            !.base = base,
                            !.built = newCheckpoint(base, t.thread, newMessages,
                                                    now, later)],
         clock |-> later]

\* The memory.get of saveResponse rejects: put is not called, the store's
\* error leaves saveResponse and replaces the completion of the turn.
commitGetFails(t) ==
    [t EXCEPT !.pc = "done", !.gets = @ + 1,
              !.error = storeFailureError(t.kind, t.exit), !.result = <<>>]

\* finally { responseText = chunks.join(''); save unless empty }, up to the
\* await of memory.put.  getOk: the get of saveResponse resolves.
Finally(s, getOk, tick1, tick2) ==
    /\ task[s].pc = "finally"
    /\ LET responseText == joinChunks(task[s].chunks)
           t1 == [task[s] EXCEPT !.responseText = responseText,
                                 !.userInputText = task[s].input]
           saves == persistsOnExit(task[s].exit) /\ shouldSave(responseText)
           commit == beginCommit(t1, impl, store[configOf(task[s].thread)],
                                 clock, tick1, tick2)
       IN  /\ ~getOk => (saves /\ getsAtCommit(impl) = 1)
           /\ IF ~saves
              THEN task' = [task EXCEPT ![s] = Outcome(t1)] /\ clock' = clock
              ELSE IF ~getOk
              THEN task' = [task EXCEPT ![s] = commitGetFails(t1)] /\ clock' = clock
              ELSE task' = [task EXCEPT ![s] = commit.task] /\ clock' = commit.clock
    /\ UNCHANGED <<impl, mode, store, turns, ledger, nonCoreVars>>

\* The awaited memory.put(config, newCheckpoint, metadata,
\* {messages: newMessages.length}) writes the checkpoint built before it.
Put(s) ==
    /\ task[s].pc = "saving"
    /\ LET newMessages == newMessagesOf(task[s].historyMessages,
                                        task[s].userInputText, task[s].responseText)
           cp == task[s].built
       IN  /\ store' = [store EXCEPT ![configOf(task[s].thread)] = cp]
           /\ task' = [task EXCEPT ![s] =
                    Outcome([task[s] EXCEPT !.puts = @ + 1, !.putCheckpoint = cp,
                                            !.historyMessages =
                                                historyAfterCommit(@, newMessages),
                                            !.putStep = nextVersion(task[s].base),
                                            !.putHint = Len(newMessages)])]
    /\ ledger' = [ledger EXCEPT ![task[s].thread] =
            Append(@, [input |-> task[s].input, user |-> task[s].userInputText,
                       response |-> task[s].responseText])]
    /\ UNCHANGED <<impl, mode, turns, clock, nonCoreVars>>

\* memory.put rejects: nothing is written, the rejection propagates.
PutFails(s) ==
    /\ task[s].pc = "saving"
    /\ LET newMessages == newMessagesOf(task[s].historyMessages,
                                        task[s].userInputText, task[s].responseText)
       IN  task' = [task EXCEPT ![s] =
                [task[s] EXCEPT !.pc = "done", !.puts = @ + 1,
                                !.putStep = nextVersion(task[s].base),
                                !.putHint = Len(newMessages),
                                !.putError = "StoreError",
                                !.error = storeFailureError(task[s].kind, task[s].exit),
                                !.result = <<>>]]
    /\ UNCHANGED <<impl, mode, store, turns, ledger, clock, nonCoreVars>>

\* ----------------------------------------------------------- one-shot turn
\* invoke(): get the checkpoint, build the input, call chain.invoke; or the
\* get rejects (getOk false) and invoke rejects with its error.
InvokeStart(s, t, key, text, getOk) ==
    /\ MayStart(s, t)
    /\ MaySend(t, text)
    /\ impl \in {"MC1", "MC2"}
    /\ LET checkpoint == store[configOf(t)]
           historyMessages == historyOf(checkpoint)
           historyText == messagesToHistoryText(historyMessages)
           invokeInput == invokeInputOf(impl, key, text, historyText)
       IN  task' = [task EXCEPT ![s] =
                IF getOk
                THEN [idleTask EXCEPT
                                 !.pc = "invoking", !.kind = "invoke", !.gets = 1,
                                 !.thread = t, !.input = text, !.key = key,
                                 !.checkpoint = checkpoint,
                                 !.historyMessages = historyMessages,
                                 !.genInput = invokeInput,
                                 !.userInputText =
                                     invokeUserInputText(impl, key, text, invokeInput)]
                ELSE getFailed("invoke", t, key, text)]
    /\ turns' = turns + 1
    /\ UNCHANGED <<impl, mode, store, ledger, clock, nonCoreVars>>

\* chain.invoke returned: nothing is saved when the response text is empty.
\* Otherwise saveResponse (MC1) calls memory.get and invoke waits for it; the
\* inlined variants build the commit at once, up to the await of memory.put.
InvokeReturn(s, response, tick1, tick2) ==
    /\ task[s].pc = "invoking"
    /\ LET t1 == [task[s] EXCEPT !.responseText = response, !.exit = "complete"]
           saves == shouldSave(response)
           commit == beginCommit(t1, impl, store[configOf(task[s].thread)],
                                 clock, tick1, tick2)
       IN  IF ~saves
           THEN task' = [task EXCEPT ![s] = Outcome(t1)] /\ clock' = clock
           ELSE IF getsAtCommit(impl) = 1
           THEN task' = [task EXCEPT ![s] = [t1 EXCEPT !.pc = "getting"]]
                   /\ clock' = clock
           ELSE task' = [task EXCEPT ![s] = commit.task] /\ clock' = commit.clock
    /\ UNCHANGED <<impl, mode, store, turns, ledger, nonCoreVars>>

\* The memory.get awaited by saveResponse in invoke settles: with the
\* checkpoint the store holds now the commit is built, up to the await of
\* memory.put; or the get rejects (getOk false).
SaveResponse(s, getOk, tick1, tick2) ==
    /\ task[s].pc = "getting"
    /\ LET commit == beginCommit(task[s], impl, store[configOf(task[s].thread)],
                                 clock, tick1, tick2)
       IN  IF ~getOk
           THEN task' = [task EXCEPT ![s] = commitGetFails(task[s])] /\ clock' = clock
           ELSE task' = [task EXCEPT ![s] = commit.task] /\ clock' = commit.clock
    /\ UNCHANGED <<impl, mode, store, turns, ledger, nonCoreVars>>

\* chain.invoke threw: the error propagates, nothing is saved.
InvokeThrow(s) ==
    /\ task[s].pc = "invoking"
    /\ task' = [task EXCEPT ![s] = Outcome([task[s] EXCEPT !.exit = "failed"])]
    /\ UNCHANGED <<impl, mode, store, turns, ledger, clock, nonCoreVars>>

\* The caller has taken the outcome; the slot is free for the next turn.
Release(s) ==
    /\ task[s].pc = "done"
    /\ task' = [task EXCEPT ![s] = idleTask]
    /\ UNCHANGED <<impl, mode, store, turns, ledger, clock, nonCoreVars>>

\* The turns over a checkpoint store whose get and put resolve; ticks says
\* by how much the clock's value may differ from one reading to the next.
Turns(ticks) ==
    \/ \E s \in Slots, t \in Threads, text \in Inputs,
          fr \in SeqsUpTo(FragPool, MaxFrags) : StreamStart(s, t, text, fr, TRUE)
    \/ \E s \in Slots, t \in Threads, text \in Inputs : StreamReturnUnstarted(s, t, text)
    \/ \E s \in Slots : StreamNext(s)
    \/ \E s \in Slots, fl \in BOOLEAN : StreamExhausted(s, fl)
    \/ \E s \in Slots : StreamReturn(s)
    \/ \E s \in Slots, tick1, tick2 \in ticks : Finally(s, TRUE, tick1, tick2)
    \/ \E s \in Slots : Put(s)
    \/ \E s \in Slots, t \in Threads, key \in Keys, text \in Inputs :
            InvokeStart(s, t, key, text, TRUE)
    \/ \E s \in Slots, response \in Responses, tick1, tick2 \in ticks :
            InvokeReturn(s, response, tick1, tick2)
    \/ \E s \in Slots, tick1, tick2 \in ticks : SaveResponse(s, TRUE, tick1, tick2)
    \/ \E s \in Slots : InvokeThrow(s)
    \/ \E s \in Slots : Release(s)

\* The turns while the clock keeps its value: every reading gives the same
\* instant.  The readings end up in id and ts of a checkpoint and nowhere else.
Next == Turns({0})

Spec == Init /\ [][Next]_vars

\* The same turns over a checkpoint store whose get and put may fail.
NextStoreFailure ==
    \/ Next
    \/ \E s \in Slots : PutFails(s)
    \/ \E s \in Slots, t \in Threads, text \in Inputs :
            StreamStart(s, t, text, <<>>, FALSE)
    \/ \E s \in Slots : Finally(s, FALSE, 0, 0)
    \/ \E s \in Slots, t \in Threads, key \in Keys, text \in Inputs :
            InvokeStart(s, t, key, text, FALSE)
    \/ \E s \in Slots : SaveResponse(s, FALSE, 0, 0)

SpecStoreFailure == Init /\ [][NextStoreFailure]_vars

\* ------------------------------------------------ ChatBot.chat, agent path
AgentContents == {<<>>, <<"x">>, <<"x", " ", "y">>}

\* String.prototype.split(" "): the pieces between the separators.
RECURSIVE split(_, _)
split(text, sep) ==
    IF \A i \in 1..Len(text) : text[i] # sep THEN <<text>>
    ELSE LET i == CHOOSE k \in 1..Len(text) :
                      text[k] = sep /\ \A j \in 1..(k - 1) : text[j] # sep
         IN  <<SubSeq(text, 1, i - 1)>> \o split(SubSeq(text, i + 1, Len(text)), sep)

\* Agent.stream: yield word + " " for each word of responseStr.split(" ")
agentFragments(responseStr) ==
    LET words == split(responseStr, " ")
    IN  [i \in 1..Len(words) |-> words[i] \o <<" ">>]

\* What Agent.invoke returns for the final message content when no schema is
\* applied (stream calls it with should_use_schema = false): the content.
agentInvokeResult(content) == content

\* The checkpoint the agent's checkpointSaver holds after agent.invoke: the
\* messages channel gains the turn's HumanMessage and the final AIMessage.
agentCheckpoint(checkpoint, thread_id, text, content, now) ==
    [present |-> TRUE,
     v |-> checkpoint.v,
     messages |-> historyOf(checkpoint) \o <<HumanMessage(text), AIMessage(content)>>,
     channel_version |-> Len(historyOf(checkpoint)) + 2,
     id |-> IF checkpoint.present THEN checkpoint.id ELSE <<thread_id, now>>,
     ts |-> IF checkpoint.present THEN checkpoint.ts ELSE now]

\* chat() with this.agent set: agent.stream() starts Agent.invoke.
AgentChatStart(s, t, text) ==
    /\ MayStart(s, t)
    /\ impl = "CBA"
    /\ task' = [task EXCEPT ![s] =
            [idleTask EXCEPT !.pc = "agentInvoking", !.kind = "agent", !.thread = t,
                             !.input = text, !.key = "input",
                             !.checkpoint = store[t],
                             !.historyMessages = historyOf(store[t]),
                             !.genInput = [key |-> "input", text |-> text]]]
    /\ turns' = turns + 1
    /\ UNCHANGED <<impl, mode, store, ledger, clock, nonCoreVars>>

\* agent.invoke returned its final message; the words are ready to be yielded.
AgentInvokeReturn(s, content) ==
    /\ task[s].pc = "agentInvoking"
    /\ LET cp == agentCheckpoint(store[task[s].thread], task[s].thread,
                                 task[s].input, content, readClock(clock, 1))
       IN  /\ store' = [store EXCEPT ![task[s].thread] = cp]
           /\ task' = [task EXCEPT ![s].pc = "agentStreaming",
                                   ![s].responseText = content,
                                   ![s].userInputText = task[s].input,
                                   ![s].frags = agentFragments(content),
                                   ![s].putCheckpoint = cp]
    /\ ledger' = [ledger EXCEPT ![task[s].thread] =
            Append(@, [input |-> task[s].input, user |-> task[s].input,
                       response |-> content])]
    /\ clock' = readClock(clock, 1)
    /\ UNCHANGED <<impl, mode, turns, nonCoreVars>>

\* agent.invoke threw: the error leaves Agent.stream and chat().
AgentInvokeThrow(s) ==
    /\ task[s].pc = "agentInvoking"
    /\ task' = [task EXCEPT ![s].pc = "done", ![s].exit = "failed",
                            ![s].fails = TRUE, ![s].error = "GenerationError"]
    /\ UNCHANGED <<impl, mode, store, turns, ledger, clock, nonCoreVars>>

\* chat(): chunks.push(chunk); yield chunk
AgentNext(s) ==
    /\ task[s].pc = "agentStreaming"
    /\ Len(task[s].chunks) < Len(task[s].frags)
    /\ LET chunk == task[s].frags[Len(task[s].chunks) + 1]
       IN  task' = [task EXCEPT ![s].chunks = Append(@, chunk),
                                ![s].forwarded =
                                    yieldChunk(@, Append(task[s].chunks, chunk), chunk)]
    /\ UNCHANGED <<impl, mode, store, turns, ledger, clock, nonCoreVars>>

\* chat(): return chunks.join('')
AgentExhausted(s) ==
    /\ task[s].pc = "agentStreaming"
    /\ Len(task[s].chunks) = Len(task[s].frags)
    /\ task' = [task EXCEPT ![s].pc = "done", ![s].exit = "complete",
                            ![s].result = streamReturnValue(task[s].chunks)]
    /\ UNCHANGED <<impl, mode, store, turns, ledger, clock, nonCoreVars>>

\* The consumer calls return() while chat() is suspended at yield.
AgentReturn(s) ==
    /\ task[s].pc = "agentStreaming"
    /\ Len(task[s].chunks) >= 1
    /\ task' = [task EXCEPT ![s].pc = "done", ![s].exit = "abandoned"]
    /\ UNCHANGED <<impl, mode, store, turns, ledger, clock, nonCoreVars>>

InitAgent ==
    /\ impl = "CBA"
    /\ mode = "serial"
    /\ InitCommon

NextAgent ==
    \/ \E s \in Slots, t \in Threads, text \in Inputs : AgentChatStart(s, t, text)
    \/ \E s \in Slots, t \in Threads, text \in Inputs : StreamReturnUnstarted(s, t, text)
    \/ \E s \in Slots, content \in AgentContents : AgentInvokeReturn(s, content)
    \/ \E s \in Slots : AgentInvokeThrow(s)
    \/ \E s \in Slots : AgentNext(s)
    \/ \E s \in Slots : AgentExhausted(s)
    \/ \E s \in Slots : AgentReturn(s)
    \/ \E s \in Slots : Release(s)

SpecAgent == InitAgent /\ [][NextAgent]_vars

\* Every streaming surface: MemoryChain.stream and both paths of ChatBot.chat.
InitStreams ==
    /\ impl \in Impls \cup {"CBA"}
    /\ mode = "serial"
    /\ InitCommon

NextStreams ==
    \/ \E s \in Slots, t \in Threads, text \in Inputs,
          fr \in SeqsUpTo(FragPool, MaxFrags) :
            impl # "CBA" /\ StreamStart(s, t, text, fr, TRUE)
    \/ \E s \in Slots : StreamNext(s)
    \/ \E s \in Slots, fl \in BOOLEAN : StreamExhausted(s, fl)
    \/ \E s \in Slots : StreamReturn(s)
    \/ \E s \in Slots : Finally(s, TRUE, 0, 0)
    \/ \E s \in Slots : Put(s)
    \/ NextAgent

SpecStreams == InitStreams /\ [][NextStreams]_vars

\* Two turns of one thread in flight at once.
InitConcurrent ==
    /\ impl \in Impls
    /\ mode = "concurrent"
    /\ InitCommon

SpecConcurrent == InitConcurrent /\ [][Next]_vars

\* Two threads, each with a caller of its own that serializes its turns.
InitIsolated ==
    /\ impl \in Impls
    /\ mode = "isolated"
    /\ InitCommon

SpecIsolated == InitIsolated /\ [][Next]_vars

\* The same two callers while the clock runs: a reading gives the instant of
\* the reading before it or a later one.
NextClock == Turns(Ticks)

SpecClock == InitIsolated /\ [][NextClock]_vars

\* MemoryChain.stream and ChatBot.chat's chain path, one caller per thread,
\* with the scheduling the runtime guarantees: a finally block that has been entered runs, and an
\* awaited put returns.  Whether the consumer asks for the next fragment,
\* closes the stream or does neither is up to the consumer.
NextLive ==
    \/ \E s \in Slots, t \in Threads, text \in Inputs,
          fr \in SeqsUpTo(FragPool, MaxFrags) : StreamStart(s, t, text, fr, TRUE)
    \/ \E s \in Slots : StreamNext(s)
    \/ \E s \in Slots, fl \in BOOLEAN : StreamExhausted(s, fl)
    \/ \E s \in Slots : StreamReturn(s)
    \/ \E s \in Slots : Finally(s, TRUE, 0, 0)
    \/ \E s \in Slots : Put(s)
    \/ \E s \in Slots : Release(s)

SpecLive ==
    /\ InitIsolated
    /\ [][NextLive]_vars
    /\ \A s \in Slots :
            /\ WF_vars(Finally(s, TRUE, 0, 0))
            /\ WF_vars(Put(s))

\* ------------------------------------------------------ retrieval context
\* "EmptyChatBot": a ChatBot that holds neither a chain nor an agent.
Surfaces == {"Chain", "Agent", "MemoryChain", "ChatBot", "EmptyChatBot"}
Data == {<<"d1">>, <<"d1", "d2">>}

\* What the promise of addContext does for its caller, given what the promise
\* of the inner Chain/Agent.addContext does.  MemoryChain.addContext and
\* ChatBot.addContext call the inner addContext without await or return.
callerOutcome(surface, inner) ==
    IF surface \in {"MemoryChain", "ChatBot", "EmptyChatBot"} THEN "resolved" ELSE inner

\* ChatBot's addContext, setContext and clearContext call the inner method
\* under if (this.chain) ... else if (this.agent) ...: with neither, no inner
\* call is made.
reachesInner(surface) == surface # "EmptyChatBot"

\* Faulty variant: the counter is incremented before the store is tested.
timesCountedFirst(hasStore, times) == times + 1
\* if (!this.vectorStore) throw ...; this.times_of_added_context++
timesAfterAddContext(hasStore, times) == IF hasStore THEN times + 1 ELSE times

\* addContext(data) up to its first await.
AddContext(surface, data) ==
    /\ ctxCall.pc = "idle"
    /\ documents + Len(data) <= MaxDocs
    /\ times_of_added_context < MaxDocs
    /\ IF ~reachesInner(surface)
       THEN /\ ctxCall' = [idleCall EXCEPT !.pc = "settled", !.surface = surface,
                                           !.data = data,
                                           !.outer = callerOutcome(surface, "none")]
       ELSE IF ~vectorStore
       THEN /\ ctxCall' = [idleCall EXCEPT !.pc = "settled", !.surface = surface,
                                           !.data = data, !.inner = "rejected",
                                           !.outer = callerOutcome(surface, "rejected")]
       ELSE /\ ctxCall' = [idleCall EXCEPT !.pc = "adding", !.surface = surface,
                                           !.data = data, !.hadStore = TRUE,
                                           !.inner = "pending",
                                           !.outer = callerOutcome(surface, "pending")]
    /\ times_of_added_context' =
            IF reachesInner(surface)
            THEN timesAfterAddContext(vectorStore, times_of_added_context)
            ELSE times_of_added_context
    /\ UNCHANGED <<nonCtxVars, vectorStore, documents>>

\* await this.vectorStore.addDocuments(docs) is over: the store took the
\* documents (ok), or it rejected and the error leaves the inner addContext.
AddDocuments(ok) ==
    /\ ctxCall.pc = "adding"
    /\ documents' = IF ok THEN documents + Len(ctxCall.data) ELSE documents
    /\ LET inner == IF ok THEN "resolved" ELSE "rejected"
       IN  ctxCall' = [ctxCall EXCEPT !.pc = "settled", !.inner = inner,
                                      !.outer = callerOutcome(ctxCall.surface, inner)]
    /\ UNCHANGED <<nonCtxVars, vectorStore,
                   times_of_added_context>>

\* setContext(vectorStore) on a surface
SetContext(surface) ==
    /\ vectorStore' = IF reachesInner(surface) THEN TRUE ELSE vectorStore
    /\ UNCHANGED <<nonCtxVars,
                   times_of_added_context, documents, ctxCall>>

\* Faulty variant: clearContext forgets the counter.
timesKeptOnClear(times) == times
\* clearContext(): this.times_of_added_context = 0
timesAfterClear(times) == 0

\* clearContext() on a surface
ClearContext(surface) ==
    /\ vectorStore' = IF reachesInner(surface) THEN FALSE ELSE vectorStore
    /\ times_of_added_context' =
            IF reachesInner(surface)
            THEN timesAfterClear(times_of_added_context)
            ELSE times_of_added_context
    /\ UNCHANGED <<nonCtxVars, documents, ctxCall>>

\* The caller has seen its promise settle.
CallSettled ==
    /\ ctxCall.pc = "settled"
    /\ ctxCall' = idleCall
    /\ UNCHANGED <<nonCtxVars, vectorStore,
                   times_of_added_context, documents>>

NextContext ==
    \/ \E surface \in Surfaces, data \in Data : AddContext(surface, data)
    \/ \E ok \in BOOLEAN : AddDocuments(ok)
    \/ \E surface \in Surfaces : SetContext(surface)
    \/ \E surface \in Surfaces : ClearContext(surface)
    \/ CallSettled

SpecContext == Init /\ [][NextContext]_vars

\* ---------------------------------------------------- history reconstructor
MaxMessages == 2   \* messages of a checkpoint handed to the reconstructor
Roles == {"user", "assistant", "system", "tool"}
Contents == {<<>>, <<"m1">>, <<"a", " ">>}
MessagesOf == [role : Roles, content : Contents]

\* A checkpoint as get returns it, holding the messages msgs.
checkpointWith(msgs) ==
    [NoCheckpoint EXCEPT !.present = TRUE, !.v = 1, !.messages = msgs,
                         !.channel_version = Len(msgs)]

\* The start of a turn: get the checkpoint, take its messages, render them.
\* When the awaited get rejects (getOk false) it returns no checkpoint, the
\* store's error leaves the turn and no transcript is built.
Reconstruct(checkpoint, getOk) ==
    /\ reconstruction.pc = "idle"
    /\ ~getOk => checkpoint = NoCheckpoint
    /\ reconstruction' =
            IF getOk
            THEN [pc |-> "done", checkpoint |-> checkpoint,
                  historyMessages |-> historyOf(checkpoint),
                  historyText |-> messagesToHistoryText(historyOf(checkpoint)),
                  error |-> "none"]
            ELSE [noReconstruction EXCEPT !.pc = "done", !.error = "StoreError"]
    /\ UNCHANGED nonTrVars

\* The turn has used the transcript.
Reconstructed ==
    /\ reconstruction.pc = "done"
    /\ reconstruction' = noReconstruction
    /\ UNCHANGED nonTrVars

NextTranscript ==
    \/ Reconstruct(NoCheckpoint, TRUE)
    \/ \E msgs \in SeqsUpTo(MessagesOf, MaxMessages) :
            Reconstruct(checkpointWith(msgs), TRUE)
    \/ Reconstruct(NoCheckpoint, FALSE)
    \/ Reconstructed

SpecTranscript == Init /\ [][NextTranscript]_vars

\* ------------------------------------------------------ Agent: tool listing
\* "heart": the Agent of heart/agent.ts, listing by the currentTools getter and
\* with addTool; "main": the Agent of main/agent.ts that lists by getTools().
AgentClasses == {"heart", "main"}
ToolNames == {"dummy", "company_docs", "search_context"}
MaxTools == 3
NoName == "undefined"
MetadataNames == {"company_docs", NoName}

\* metadata.name ?? "search_context"
ragToolName(name) == IF name = NoName THEN "search_context" ELSE name

\* get currentTools(): the configured tools, then the RAG tool if there is one.
currentTools(a) ==
    IF a.rag_tool # NoTool THEN Append(a.tools, a.rag_tool) ELSE a.tools

\* getTools(): the configured tools.
getTools(a) == a.tools

\* The tool-name listing the class offers.
toolListing(a) == IF a.class = "main" THEN getTools(a) ELSE currentTools(a)

\* setContext(vectorStore, {name})
AgentSetContext(name) ==
    /\ theAgent' = [theAgent EXCEPT !.vectorStore = TRUE,
                                    !.rag_tool = ragToolName(name)]
    /\ UNCHANGED <<nonAgVars, agentCalls>>

\* hasContext()
hasContext(a) == a.vectorStore /\ a.rag_tool # NoTool

\* addContext(data) up to its await: throws without a vector store, else
\* counts and hands the documents to the store.
AgentAddContext(c) ==
    /\ agentCalls[c].pc = "idle"
    /\ theAgent.times_of_added_context < MaxDocs
    /\ IF ~theAgent.vectorStore
       THEN /\ agentCalls' = [agentCalls EXCEPT ![c] =
                    [idleAgentCall EXCEPT !.kind = "addContext", !.pc = "thrown",
                                          !.exit = "failed"]]
            /\ UNCHANGED theAgent
       ELSE /\ agentCalls' = [agentCalls EXCEPT ![c] =
                    [idleAgentCall EXCEPT !.kind = "addContext", !.pc = "adding",
                                          !.hadStore = hasContext(theAgent)]]
            /\ theAgent' = [theAgent EXCEPT !.times_of_added_context = @ + 1]
    /\ UNCHANGED nonAgVars

\* await this.vectorStore.addDocuments(docs) is over: it resolved or rejected.
AgentAddDocuments(c, ok) ==
    /\ agentCalls[c].pc = "adding"
    /\ agentCalls' = [agentCalls EXCEPT
            ![c].pc = IF ok THEN "returned" ELSE "thrown",
            ![c].exit = IF ok THEN "complete" ELSE "failed"]
    /\ UNCHANGED <<nonAgVars, theAgent>>

\* Faulty variant: the RAG tool outlives the vector store.
clearedAgentKeepsTool(a) ==
    [a EXCEPT !.vectorStore = FALSE, !.times_of_added_context = 0]
\* clearContext(): rag_tool, vectorStore = undefined, the counter = 0
clearedAgent(a) ==
    [a EXCEPT !.vectorStore = FALSE, !.rag_tool = NoTool,
              !.times_of_added_context = 0]

\* clearContext()
AgentClearContext ==
    /\ theAgent' = clearedAgent(theAgent)
    /\ UNCHANGED <<nonAgVars, agentCalls>>

\* The caller of addContext has seen its promise settle.
AgentContextCallTaken(c) ==
    /\ agentCalls[c].kind = "addContext"
    /\ agentCalls[c].pc \in {"returned", "thrown"}
    /\ agentCalls' = [agentCalls EXCEPT ![c] = idleAgentCall]
    /\ UNCHANGED <<nonAgVars, theAgent>>

\* addTool(tool) of heart/agent.ts
AgentAddTool(name) ==
    /\ theAgent.class = "heart"
    /\ Len(theAgent.tools) < MaxTools
    /\ theAgent' = [theAgent EXCEPT !.tools = Append(@, name)]
    /\ UNCHANGED <<nonAgVars, agentCalls>>

InitTools ==
    /\ impl = "CB"
    /\ mode = "serial"
    /\ store = [t \in Threads |-> NoCheckpoint]
    /\ task = [s \in Slots |-> idleTask]
    /\ turns = 0
    /\ ledger = [t \in Threads |-> <<>>]
    /\ clock = 0
    /\ vectorStore = FALSE
    /\ times_of_added_context = 0
    /\ documents = 0
    /\ ctxCall = idleCall
    /\ reconstruction = noReconstruction
    /\ \E class \in AgentClasses : theAgent = newAgent(class, <<"dummy">>, FALSE)
    /\ agentCalls = [c \in AgentCalls |-> idleAgentCall]
    /\ registry = noRegistry
    /\ regCall = noRegCall
    /\ structCall = noStructCall
    /\ wordStream = noWordStream
    /\ chatBot = noChatBot

NextTools ==
    \/ \E name \in MetadataNames : AgentSetContext(name)
    \/ \E c \in AgentCalls : AgentAddContext(c)
    \/ \E c \in AgentCalls, ok \in BOOLEAN : AgentAddDocuments(c, ok)
    \/ AgentClearContext
    \/ \E c \in AgentCalls : AgentContextCallTaken(c)
    \/ \E name \in ToolNames : AgentAddTool(name)

SpecTools == InitTools /\ [][NextTools]_vars

\* ------------------------------------------- Agent: invoke, stream, schema
MaxWords == 2

\* if (this.schema && this.should_use_schema) return await structure(...)
\* else return content
invokeReturns(a) ==
    IF a.schema /\ a.should_use_schema THEN "structured" ELSE "text"

\* Faulty variant: the flag is set back only when the words run out.
flagAfterStreamNoFinally(flag, exit) == IF exit = "complete" THEN TRUE ELSE flag
\* finally { this.should_use_schema = true }
flagAfterStream(flag, exit) == TRUE

\* invoke({input, debug}) runs up to await this.agent.invoke(...)
AgentInvoke(c, debug) ==
    /\ agentCalls[c].pc = "idle"
    /\ agentCalls' = [agentCalls EXCEPT ![c] =
            [idleAgentCall EXCEPT !.kind = "invoke", !.pc = "awaiting",
                                  !.debug = debug]]
    /\ UNCHANGED <<nonAgVars, theAgent>>

\* stream({input, debug}) hands out the generator; its body has not run.  It
\* will pass debug on to invoke.
AgentStream(c, debug) ==
    /\ agentCalls[c].pc = "idle"
    /\ agentCalls' = [agentCalls EXCEPT ![c] =
            [idleAgentCall EXCEPT !.kind = "stream", !.pc = "created",
                                  !.debug = debug]]
    /\ UNCHANGED <<nonAgVars, theAgent>>

\* The first next(): this.should_use_schema = false, then await this.invoke(rest).
AgentStreamFirstNext(c) ==
    /\ agentCalls[c].pc = "created"
    /\ theAgent' = [theAgent EXCEPT !.should_use_schema = FALSE]
    /\ agentCalls' = [agentCalls EXCEPT ![c].pc = "awaiting"]
    /\ UNCHANGED nonAgVars

\* The consumer drops the generator before its first next(): nothing ran.
AgentStreamDropped(c) ==
    /\ agentCalls[c].pc = "created"
    /\ agentCalls' = [agentCalls EXCEPT ![c].pc = "done", ![c].exit = "abandoned"]
    /\ UNCHANGED <<nonAgVars, theAgent>>

\* this.agent.invoke resolved.  if(debug) return result: invoke returns the
\* raw result without reading the flag.  Otherwise it reads the flag: with a
\* schema and the flag true it goes on to await structure(...), else it
\* returns the content.  A stream splits what invoke returned (the content, or
\* JSON.stringify of the raw result) into words and starts to yield them.
AgentLLMReturns(c, words) ==
    /\ agentCalls[c].pc = "awaiting"
    /\ words = 1 \/ agentCalls[c].kind = "stream"
    /\ IF agentCalls[c].debug
       THEN agentCalls' = [agentCalls EXCEPT
                ![c].response = "raw",
                ![c].words = IF agentCalls[c].kind = "stream" THEN words ELSE 0,
                ![c].pc = IF agentCalls[c].kind = "stream" THEN "yielding" ELSE "returned"]
       ELSE IF invokeReturns(theAgent) = "structured"
       THEN agentCalls' = [agentCalls EXCEPT
                ![c].flagRead = "true",
                ![c].pc = "structuring"]
       ELSE agentCalls' = [agentCalls EXCEPT
                ![c].flagRead = IF theAgent.should_use_schema THEN "true" ELSE "false",
                ![c].response = "text",
                ![c].words = IF agentCalls[c].kind = "stream" THEN words ELSE 0,
                ![c].pc = IF agentCalls[c].kind = "stream" THEN "yielding" ELSE "returned"]
    /\ UNCHANGED <<nonAgVars, theAgent>>

\* await structure({ data: content, into: this.schema, llm: this.llm }) is over.
\* It resolved (ok): invoke returns the structured result, whatever the flag
\* holds by now.  It rejected after its last attempt: invoke throws; in a
\* stream the error passes the finally block.
AgentStructureSettles(c, ok, words) ==
    /\ agentCalls[c].pc = "structuring"
    /\ words = 1 \/ (ok /\ agentCalls[c].kind = "stream")
    /\ IF ok
       THEN /\ agentCalls' = [agentCalls EXCEPT
                    ![c].response = "structured",
                    ![c].words = IF agentCalls[c].kind = "stream" THEN words ELSE 0,
                    ![c].pc = IF agentCalls[c].kind = "stream"
                              THEN "yielding" ELSE "returned"]
            /\ theAgent' = theAgent
       ELSE /\ agentCalls' = [agentCalls EXCEPT ![c].pc = "thrown",
                                                ![c].exit = "failed"]
            /\ theAgent' =
                    IF agentCalls[c].kind = "stream"
                    THEN [theAgent EXCEPT
                            !.should_use_schema = flagAfterStream(@, "failed")]
                    ELSE theAgent
    /\ UNCHANGED nonAgVars

\* this.agent.invoke rejected: invoke throws; in a stream the error passes the
\* finally block.
AgentLLMThrows(c) ==
    /\ agentCalls[c].pc = "awaiting"
    /\ agentCalls' = [agentCalls EXCEPT ![c].pc = "thrown", ![c].exit = "failed"]
    /\ theAgent' =
            IF agentCalls[c].kind = "stream"
            THEN [theAgent EXCEPT !.should_use_schema = flagAfterStream(@, "failed")]
            ELSE theAgent
    /\ UNCHANGED nonAgVars

\* yield word + " "
AgentStreamYield(c) ==
    /\ agentCalls[c].pc = "yielding"
    /\ agentCalls[c].yielded < agentCalls[c].words
    /\ agentCalls' = [agentCalls EXCEPT ![c].yielded = @ + 1]
    /\ UNCHANGED <<nonAgVars, theAgent>>

\* The words have run out: the loop ends, finally runs.
AgentStreamEnd(c) ==
    /\ agentCalls[c].pc = "yielding"
    /\ agentCalls[c].yielded = agentCalls[c].words
    /\ agentCalls' = [agentCalls EXCEPT ![c].pc = "done", ![c].exit = "complete"]
    /\ theAgent' = [theAgent EXCEPT !.should_use_schema = flagAfterStream(@, "complete")]
    /\ UNCHANGED nonAgVars

\* The consumer calls return() while the generator is suspended at yield.
AgentStreamReturn(c) ==
    /\ agentCalls[c].pc = "yielding"
    /\ agentCalls[c].yielded >= 1
    /\ agentCalls' = [agentCalls EXCEPT ![c].pc = "done", ![c].exit = "abandoned"]
    /\ theAgent' = [theAgent EXCEPT !.should_use_schema = flagAfterStream(@, "abandoned")]
    /\ UNCHANGED nonAgVars

\* The caller has its result, its error or the end of its stream.
AgentCallTaken(c) ==
    /\ agentCalls[c].pc \in {"returned", "thrown", "done"}
    /\ agentCalls' = [agentCalls EXCEPT ![c] = idleAgentCall]
    /\ UNCHANGED <<nonAgVars, theAgent>>

InitSchema ==
    /\ impl = "CBA"
    /\ mode = "serial"
    /\ store = [t \in Threads |-> NoCheckpoint]
    /\ task = [s \in Slots |-> idleTask]
    /\ turns = 0
    /\ ledger = [t \in Threads |-> <<>>]
    /\ clock = 0
    /\ vectorStore = FALSE
    /\ times_of_added_context = 0
    /\ documents = 0
    /\ ctxCall = idleCall
    /\ reconstruction = noReconstruction
    /\ \E schema \in BOOLEAN : theAgent = newAgent("heart", <<"dummy">>, schema)
    /\ agentCalls = [c \in AgentCalls |-> idleAgentCall]
    /\ registry = noRegistry
    /\ regCall = noRegCall
    /\ structCall = noStructCall
    /\ wordStream = noWordStream
    /\ chatBot = noChatBot

NextSchema ==
    \/ \E c \in AgentCalls, debug \in BOOLEAN : AgentInvoke(c, debug)
    \/ \E c \in AgentCalls, debug \in BOOLEAN : AgentStream(c, debug)
    \/ \E c \in AgentCalls : AgentStreamFirstNext(c)
    \/ \E c \in AgentCalls : AgentStreamDropped(c)
    \/ \E c \in AgentCalls, words \in 1..MaxWords : AgentLLMReturns(c, words)
    \/ \E c \in AgentCalls, ok \in BOOLEAN, words \in 1..MaxWords :
            AgentStructureSettles(c, ok, words)
    \/ \E c \in AgentCalls : AgentLLMThrows(c)
    \/ \E c \in AgentCalls : AgentStreamYield(c)
    \/ \E c \in AgentCalls : AgentStreamEnd(c)
    \/ \E c \in AgentCalls : AgentStreamReturn(c)
    \/ \E c \in AgentCalls : AgentCallTaken(c)

SpecSchema == InitSchema /\ [][NextSchema]_vars

\* ------------------------------------------------------------ ToolRegistry
MaxInitTools == 2   \* tools handed to the constructor
MaxRegTools == 3    \* tools a registry holds
RegNames == {"foo", "Foo", "bar"}
ToolIds == 1..2

\* name.toLowerCase()
toLowerCase(name) == IF name = "Foo" THEN "foo" ELSE name

\* What callers hand in: a DynamicStructuredTool object (dst), which object
\* being told by name and id, or a plain Tool description.
ToolInputs == [name : RegNames, id : ToolIds, dst : BOOLEAN]

\* turnToTool(tool) / new DynamicStructuredTool({...}): an object of the
\* registry's own making, different from every other object; a
\* DynamicStructuredTool is taken as it is.
turnToTool(tool) == [name |-> tool.name, id |-> tool.id, own |-> TRUE]
asRegistered(tool) ==
    IF tool.dst THEN [name |-> tool.name, id |-> tool.id, own |-> FALSE]
    ELSE turnToTool(tool)

\* tools[i] and tools[j] are one and the same object.
sameObject(tools, i, j) == i = j \/ (tools[i] = tools[j] /\ ~tools[i].own)

\* this.tools.indexOf(this.tools[i])
indexOf(tools, i) == CHOOSE j \in 1..i :
    sameObject(tools, j, i) /\ \A k \in 1..(j - 1) : ~sameObject(tools, k, i)

\* checkDuplicatedTools(): some tool is not at the index indexOf finds it at.
checkDuplicatedTools(tools) == \E i \in 1..Len(tools) : indexOf(tools, i) # i

IsNamed(name, tool) == toLowerCase(tool.name) = toLowerCase(name)

\* getTool(name)
getTool(tools, name) ==
    LET found == SelectSeq(tools, LAMBDA tool : IsNamed(name, tool))
    IN  IF Len(found) > 1
        THEN [outcome |-> "thrown", error |-> "several", found |-> <<>>]
        ELSE IF Len(found) # 1
        THEN [outcome |-> "returned", error |-> "none", found |-> <<>>]
        ELSE [outcome |-> "returned", error |-> "none", found |-> <<found[1]>>]

\* addTool(tool)
addTool(tools, tool) ==
    IF \E i \in 1..Len(tools) : tools[i].name = tool.name
    THEN [outcome |-> "thrown", error |-> "registered", tools |-> tools]
    ELSE [outcome |-> "returned", error |-> "none",
          tools |-> Append(tools, asRegistered(tool))]

\* this.tools.splice(i, 1)
splice(tools, i) == SubSeq(tools, 1, i - 1) \o SubSeq(tools, i + 1, Len(tools))

\* The loop of deleteTool from index i on: after a splice the index still
\* moves on by one.
RECURSIVE deleteFrom(_, _, _)
deleteFrom(tools, name, i) ==
    IF i > Len(tools) THEN tools
    ELSE IF tools[i].name = name THEN deleteFrom(splice(tools, i), name, i + 1)
    ELSE deleteFrom(tools, name, i + 1)

\* deleteTool(name)
deleteTool(tools, name) == deleteFrom(tools, name, 1)

\* updateTool(name, tool)
updateTool(tools, name, tool) ==
    IF name # tool.name
    THEN [outcome |-> "thrown", error |-> "names", tools |-> tools]
    ELSE addTool(deleteTool(tools, name), tool)

\* new ToolRegistry(tools)
NewToolRegistry(input) ==
    /\ ~registry.built
    /\ LET tools == [i \in 1..Len(input) |-> asRegistered(input[i])]
       IN  IF checkDuplicatedTools(tools)
           THEN /\ registry' = noRegistry
                /\ regCall' = [op |-> "new", outcome |-> "thrown", error |-> "several"]
           ELSE /\ registry' = [built |-> TRUE, tools |-> tools]
                /\ regCall' = [op |-> "new", outcome |-> "returned", error |-> "none"]
    /\ UNCHANGED nonRegVars

RegistryGetTool(name) ==
    /\ registry.built
    /\ regCall' = [op |-> "getTool", outcome |-> getTool(registry.tools, name).outcome,
                   error |-> getTool(registry.tools, name).error]
    /\ UNCHANGED <<nonRegVars, registry>>

RegistryAddTool(tool) ==
    /\ registry.built
    /\ Len(registry.tools) < MaxRegTools
    /\ LET r == addTool(registry.tools, tool)
       IN  /\ registry' = [registry EXCEPT !.tools = r.tools]
           /\ regCall' = [op |-> "addTool", outcome |-> r.outcome, error |-> r.error]
    /\ UNCHANGED nonRegVars

RegistryDeleteTool(name) ==
    /\ registry.built
    /\ registry' = [registry EXCEPT !.tools = deleteTool(@, name)]
    /\ regCall' = [op |-> "deleteTool", outcome |-> "returned", error |-> "none"]
    /\ UNCHANGED nonRegVars

RegistryUpdateTool(name, tool) ==
    /\ registry.built
    /\ tool.dst
    /\ LET r == updateTool(registry.tools, name, tool)
       IN  /\ registry' = [registry EXCEPT !.tools = r.tools]
           /\ regCall' = [op |-> "updateTool", outcome |-> r.outcome, error |-> r.error]
    /\ UNCHANGED nonRegVars

NextRegistry ==
    \/ \E input \in SeqsUpTo(ToolInputs, MaxInitTools) : NewToolRegistry(input)
    \/ \E name \in RegNames : RegistryGetTool(name)
    \/ \E tool \in ToolInputs : RegistryAddTool(tool)
    \/ \E name \in RegNames : RegistryDeleteTool(name)
    \/ \E name \in RegNames, tool \in ToolInputs : RegistryUpdateTool(name, tool)

InitRegistry ==
    /\ impl = "CB"
    /\ mode = "serial"
    /\ InitCommon

SpecRegistry == InitRegistry /\ [][NextRegistry]_vars

\* ------------------------------------------- Agent.stream: words of a response
MaxContent == 3   \* characters of a final response text
ContentChars == {"x", "y", " "}

\* content.trim().length === 0
trimmedIsEmpty(content) == \A i \in 1..Len(content) : content[i] = " "

\* The words the loop of Agent.stream goes through: main/agent.ts returns
\* before the loop for a content that is empty or blank; heart/agent.ts splits
\* whatever invoke returned.
wordsToYield(class, content) ==
    IF class = "main" /\ trimmedIsEmpty(content) THEN <<>>
    ELSE split(content, " ")

\* stream(invokeInput) up to the loop over the words; content is the text of
\* the agent's final response.
AgentStreamWords(class, content) ==
    /\ wordStream.pc = "idle"
    /\ wordStream' = [noWordStream EXCEPT !.pc = "yielding", !.class = class,
                                          !.content = content,
                                          !.words = wordsToYield(class, content)]
    /\ UNCHANGED nonWsVars

\* yield word + " "
AgentWordYield ==
    /\ wordStream.pc = "yielding"
    /\ Len(wordStream.yielded) < Len(wordStream.words)
    /\ wordStream' = [wordStream EXCEPT !.yielded =
            Append(@, wordStream.words[Len(wordStream.yielded) + 1] \o <<" ">>)]
    /\ UNCHANGED nonWsVars

\* The words have run out: the generator is done.
AgentWordsDone ==
    /\ wordStream.pc = "yielding"
    /\ Len(wordStream.yielded) = Len(wordStream.words)
    /\ wordStream' = [wordStream EXCEPT !.pc = "done"]
    /\ UNCHANGED nonWsVars

\* The consumer has seen the end of the stream.
AgentWordsTaken ==
    /\ wordStream.pc = "done"
    /\ wordStream' = noWordStream
    /\ UNCHANGED nonWsVars

NextWords ==
    \/ \E class \in AgentClasses, content \in SeqsUpTo(ContentChars, MaxContent) :
            AgentStreamWords(class, content)
    \/ AgentWordYield
    \/ AgentWordsDone
    \/ AgentWordsTaken

InitWords ==
    /\ impl = "CBA"
    /\ mode = "serial"
    /\ InitCommon

SpecWords == InitWords /\ [][NextWords]_vars

\* --------------------------------------------------------- ChatBot: construction
\* The props objects a caller can hand to the constructor; tools can also be
\* the empty array.
ChatBotPropsSet ==
    [memory : {Absent, Given}, chain : {Absent, Undefined, Given},
     llm : {Absent, Given}, prompt : {Absent, Given},
     tools : {Absent, Undefined, "empty", Given}]

\* "chain" in rest
HasKey(value) == value # Absent
\* rest.tools (truthiness): an array, also the empty one, is truthy
Truthy(value) == value \in {Given, "empty"}

\* this.chain after the constructor
chainAfterConstruction(props) ==
    IF HasKey(props.chain)
    THEN (IF props.chain = Given THEN "Chain" ELSE Undefined)
    ELSE IF HasKey(props.tools) /\ Truthy(props.tools) THEN Undefined
    ELSE "Chain"

\* this.agent after the constructor
agentAfterConstruction(props) ==
    IF HasKey(props.chain) THEN Undefined
    ELSE IF HasKey(props.tools) /\ Truthy(props.tools) THEN "Agent"
    ELSE Undefined

\* rest.llm ?? getLLM("groq") is evaluated in the branches that build an Agent
\* or a Chain, and calls getLLM when the props carry no llm.
usesDefaultLLM(props) == ~HasKey(props.chain) /\ props.llm # Given

\* getLLM("groq"): if (!process.env.CHATGROQ_API_KEY) throw new Error(...)
getLLMThrows(keySet) == ~keySet

\* new ChatBot(props), with CHATGROQ_API_KEY set in the environment or not.
\* When getLLM throws, the constructor throws and no ChatBot exists.
NewChatBot(props, keySet) ==
    /\ ~chatBot.built
    /\ IF usesDefaultLLM(props) /\ getLLMThrows(keySet)
       THEN chatBot' = [noChatBot EXCEPT !.props = props,
                                         !.error = "CHATGROQ_API_KEY is not set"]
       ELSE chatBot' = [built |-> TRUE, props |-> props,
                        memory |-> IF props.memory = Given THEN Given
                                   ELSE "SmartCheckpointSaver",
                        chain |-> chainAfterConstruction(props),
                        agent |-> agentAfterConstruction(props),
                        chat |-> "none", error |-> "none"]
    /\ UNCHANGED nonCbVars

\* The branch chat() takes: if (this.agent) ... else if (this.chain) ... else throw
chatBranch(bot) ==
    IF bot.agent # Undefined THEN "agent"
    ELSE IF bot.chain # Undefined THEN "chain"
    ELSE "neither"

\* chat({message, thread_id}) up to its branch
ChatBotChat ==
    /\ chatBot.built
    /\ chatBot.chat = "none"
    /\ chatBot' = [chatBot EXCEPT !.chat = chatBranch(chatBot)]
    /\ UNCHANGED nonCbVars

\* The ChatBot is dropped.
ChatBotDropped ==
    /\ chatBot.built
    /\ chatBot' = noChatBot
    /\ UNCHANGED nonCbVars

NextChatBot ==
    \/ \E props \in ChatBotPropsSet, keySet \in BOOLEAN : NewChatBot(props, keySet)
    \/ ChatBotChat
    \/ ChatBotDropped

InitChatBot ==
    /\ impl = "CB"
    /\ mode = "serial"
    /\ InitCommon

SpecChatBot == InitChatBot /\ [][NextChatBot]_vars

\* ------------------------------------------------------------- structure()
MaxRetries == 2
\* data: a string, a value JSON.stringify can write, or one it cannot (a
\* circular object, a BigInt).
StructData == {"text", "object", "circular"}
\* The llm argument: passed by the caller, or left out.
StructLLMs == {Given, Undefined}
\* How one attempt ends: chain.invoke and into.parse went through, chain.invoke
\* rejected, or into.parse threw.
AttemptEnds == {"ok", "invokeRejected", "parseThrew"}

\* typeof data === "string" ? data : JSON.stringify(data, null, 2)
stringifyThrows(data) == data = "circular"

\* The default parameter llm = getLLM("groq") is evaluated only when the
\* caller passed no llm.
defaultLLMThrows(llm, keySet) == llm = Undefined /\ getLLMThrows(keySet)

\* Faulty variant: one attempt too many.
mayAttemptOnceMore(i, retries) == i <= retries + 1
\* for (let i = 0; i <= retries; i++)
mayAttempt(i, retries) == i <= retries

\* What the loop does at its test with counter i: another attempt, or the
\* throw after the loop.
atLoopTest(call, i) ==
    IF mayAttempt(i, call.retries)
    THEN [call EXCEPT !.pc = "attempting", !.i = i]
    ELSE [call EXCEPT !.pc = "thrown", !.i = i, !.error = "failedAfterAttempts"]

\* The error structure() raises in the turn of the call, "none" when it
\* reaches its await of partial(...): the parameter default first, then the
\* statements in their order.
callError(data, llm, keySet, parserOk) ==
    IF defaultLLMThrows(llm, keySet) THEN "CHATGROQ_API_KEY is not set"
    ELSE IF stringifyThrows(data) THEN "stringifyThrew"
    ELSE IF ~parserOk THEN "parserThrew"
    ELSE "none"

\* structure({data, into, llm, retries}) up to its first await, the one of
\* partial(...), with CHATGROQ_API_KEY set in the environment or not and with
\* StructuredOutputParser.fromZodSchema and getFormatInstructions going
\* through or throwing (parserOk). A failure on the way is not caught: the
\* call raises it and has attempted nothing.
Structure(data, retries, llm, keySet, parserOk) ==
    /\ structCall.pc = "idle"
    /\ LET call == [noStructCall EXCEPT !.data = data, !.retries = retries,
                                        !.llm = llm]
           error == callError(data, llm, keySet, parserOk)
       IN  structCall' = IF error # "none"
                         THEN [call EXCEPT !.pc = "thrown", !.error = error]
                         ELSE [call EXCEPT !.pc = "preparing"]
    /\ UNCHANGED nonStVars

\* The awaited partial(...) settles: createChain and the first test of the
\* loop, up to the await of chain.invoke; or it rejects, which is not caught.
StructurePrepared(ok) ==
    /\ structCall.pc = "preparing"
    /\ structCall' = IF ~ok
                     THEN [structCall EXCEPT !.pc = "thrown",
                                             !.error = "partialRejected"]
                     ELSE atLoopTest(structCall, 0)
    /\ UNCHANGED nonStVars

\* One attempt: await chain.invoke, into.parse; return, or catch and go on.
StructureAttempt(end) ==
    /\ structCall.pc = "attempting"
    /\ LET call == [structCall EXCEPT !.attempts = Append(@, end)]
       IN  structCall' =
                IF end = "ok"
                THEN [call EXCEPT !.pc = "returned", !.result = structCall.data]
                ELSE atLoopTest(call, structCall.i + 1)
    /\ UNCHANGED nonStVars

\* The caller has the structured value or the error.
StructureSettled ==
    /\ structCall.pc \in {"returned", "thrown"}
    /\ structCall' = noStructCall
    /\ UNCHANGED nonStVars

NextStructure ==
    \/ \E data \in StructData, retries \in 0..MaxRetries, llm \in StructLLMs,
          keySet \in BOOLEAN, parserOk \in BOOLEAN :
            Structure(data, retries, llm, keySet, parserOk)
    \/ \E ok \in BOOLEAN : StructurePrepared(ok)
    \/ \E end \in AttemptEnds : StructureAttempt(end)
    \/ StructureSettled

\* The code sets no time limit on what it awaits: an attempt that has begun
\* may stay pending, so no fairness is assumed.
SpecStructure == Init /\ [][NextStructure]_vars

TypeOK ==
    /\ impl \in Impls \cup {"CBA"}
    /\ turns \in 0..MaxTurns
    /\ \A s \in Slots : task[s].puts \in 0..1

\* ================================================================== claims
Last(q) == q[Len(q)]
StreamDone(s) == task[s].kind = "stream" /\ task[s].pc = "done"
VersionOf(checkpoint) == IF checkpoint.present THEN checkpoint.v ELSE 0

\* C1: a streaming turn that accumulated at least one fragment invokes put
\* exactly once, whichever of complete, failed or abandoned ended its loop, and
\* the put carries the text accumulated up to that exit; no turn puts twice.
C1_PutExactlyOnce ==
    \A s \in Slots :
        /\ task[s].puts <= 1
        /\ (StreamDone(s) /\ Len(task[s].chunks) >= 1) =>
              /\ task[s].exit \in {"complete", "failed", "abandoned"}
              /\ task[s].puts = 1
              /\ Last(task[s].putCheckpoint.messages)
                    = AIMessage(joinChunks(task[s].chunks))

C1_Witness ==
    \E s \in Slots :
        /\ impl = "CB"
        /\ StreamDone(s)
        /\ task[s].exit = "failed"
        /\ Len(task[s].chunks) = 2
        /\ task[s].puts = 1

\* C2: when the collaborator would yield n fragments and the consumer stops
\* after k of them, 0 < k < n, the store then holds a checkpoint one version
\* above the one before the turn whose last message is the assistant message
\* made of exactly those k fragments.
C2_CancellationPersists ==
    \A s \in Slots :
        LET k == Len(task[s].forwarded)
            n == Len(task[s].frags)
            now == store[task[s].thread]
        IN  (StreamDone(s) /\ task[s].exit = "abandoned" /\ 0 < k /\ k < n) =>
              /\ now.present
              /\ now.v = VersionOf(task[s].checkpoint) + 1
              /\ Last(now.messages)
                    = AIMessage(join(SubSeq(task[s].frags, 1, k), <<>>))

C2_Witness ==
    \E s \in Slots :
        /\ impl = "MC1"
        /\ StreamDone(s)
        /\ task[s].exit = "abandoned"
        /\ Len(task[s].forwarded) = 1
        /\ Len(task[s].frags) = 2
        /\ task[s].checkpoint.present
        /\ store[task[s].thread].v = 2

\* C3: when generation fails after k >= 1 fragments, the caller observes the
\* generation error, and observes it only once the text of those k fragments
\* has been committed.
C3_CommitThenGenerationError ==
    \A s \in Slots :
        /\ (task[s].kind = "stream" /\ task[s].error # "none") =>
              /\ task[s].error = "GenerationError"
              /\ task[s].exit = "failed"
              /\ Len(task[s].forwarded) >= 1 =>
                    /\ task[s].puts = 1
                    /\ store[task[s].thread].present
                    /\ Last(store[task[s].thread].messages)
                          = AIMessage(join(task[s].forwarded, <<>>))
        /\ (StreamDone(s) /\ task[s].exit = "failed") =>
              task[s].error = "GenerationError"

C3_Witness ==
    \E s \in Slots :
        /\ impl = "MC2"
        /\ StreamDone(s)
        /\ task[s].error = "GenerationError"
        /\ Len(task[s].forwarded) = 1
        /\ task[s].puts = 1

\* C4: on every exit path of a streaming turn, the assistant message persisted
\* for the turn is exactly the in-order concatenation of the fragments the
\* caller received.
C4_RoundTripFidelity ==
    \A s \in Slots :
        (task[s].pc = "done" /\ task[s].putCheckpoint.present
            /\ task[s].kind \in {"stream", "agent"}) =>
              Last(task[s].putCheckpoint.messages)
                  = AIMessage(join(task[s].forwarded, <<>>))

\* C5: a turn that ends with an empty response text never calls put: the
\* thread's checkpoint (or its absence) is what it was before the turn, and an
\* empty turn that completed normally reports no error.
C5_EmptyTurnNoOp ==
    \A s \in Slots :
        LET text == IF task[s].kind = "stream" THEN joinChunks(task[s].chunks)
                    ELSE task[s].responseText
        IN  (task[s].pc = "done" /\ Len(text) = 0) =>
              /\ task[s].puts = 0
              /\ store[task[s].thread] = task[s].checkpoint
              /\ task[s].exit = "complete" => task[s].error = "none"

C5_Witness ==
    \E s \in Slots :
        /\ StreamDone(s)
        /\ task[s].exit = "complete"
        /\ task[s].frags = <<>>
        /\ task[s].checkpoint.present
        /\ store[task[s].thread] = task[s].checkpoint

\* C6: with serialized turns from an empty store, the stored version is the
\* number of turns that committed a non-empty text, and each commit writes the
\* version that is one above the version read before the turn.
C6_VersionCountsCommits ==
    /\ \A t \in Threads : VersionOf(store[t]) = Len(ledger[t])
    /\ \A t \in Threads : store[t].present <=> Len(ledger[t]) > 0
    /\ \A s \in Slots :
          task[s].puts = 1 =>
              /\ task[s].putCheckpoint.v = VersionOf(task[s].checkpoint) + 1
              /\ store[task[s].thread].v >= task[s].putCheckpoint.v

C6_Witness ==
    /\ store["t1"].present
    /\ store["t1"].v = 2
    /\ \E s \in Slots : task[s].pc = "done" /\ task[s].kind = "invoke" /\ task[s].puts = 1

\* C7: with serialized turns, every committed message list is the previously
\* stored list followed by one user and one assistant message, so that after N
\* committed turns the list has 2N messages, user and assistant alternating.
C7_AppendOnly ==
    /\ \A t \in Threads :
          LET m == historyOf(store[t])
          IN  /\ Len(m) = 2 * Len(ledger[t])
              /\ \A i \in 1..Len(m) :
                    m[i].role = IF i % 2 = 1 THEN "user" ELSE "assistant"
    /\ \A s \in Slots :
          task[s].puts = 1 =>
              LET old == historyOf(task[s].checkpoint)
                  new == task[s].putCheckpoint.messages
              IN  /\ Len(new) = Len(old) + 2
                  /\ IsPrefix(old, new)
                  /\ IsPrefix(new, historyOf(store[task[s].thread]))

C7_Witness ==
    /\ Len(historyOf(store["t1"])) = 4
    /\ \E s \in Slots : task[s].pc = "done" /\ task[s].puts = 1
                        /\ Len(task[s].checkpoint.messages) = 2

\* C8: after two committed turns on an initially empty thread, made through
\* invoke or stream with caller inputs m1 and m2, the stored checkpoint is
\* version 2 and holds exactly [User(m1), Assistant(r1), User(m2),
\* Assistant(r2)], each user message carrying the text the caller supplied.
C8_HistoryCarryOverShape ==
    \A t \in Threads :
        Len(ledger[t]) = 2 =>
            /\ store[t].present
            /\ store[t].v = 2
            /\ store[t].messages =
                  << HumanMessage(ledger[t][1].input), AIMessage(ledger[t][1].response),
                     HumanMessage(ledger[t][2].input), AIMessage(ledger[t][2].response) >>

\* C9: on a thread that already has a committed checkpoint, the input handed
\* to the generation collaborator contains the transcript of the committed
\* messages, for stream and for invoke called with the text under `input`.
C9_TranscriptInGenerationInput ==
    \A s \in Slots :
        (/\ task[s].kind \in {"stream", "invoke"}
         /\ task[s].genInput.key # "none"
         /\ task[s].key = "input"
         /\ task[s].checkpoint.present) =>
            Includes(task[s].genInput.text,
                     messagesToHistoryText(task[s].checkpoint.messages))

\* C10: when two turns of one thread both loaded the checkpoint at version N
\* before either committed, both commits write version N+1, and the stored
\* checkpoint then holds the user/assistant pair of only one of them, with no
\* error to either caller.
C10_LostUpdate ==
    \A a, b \in Slots :
        (/\ a # b
         /\ task[a].pc = "done" /\ task[b].pc = "done"
         /\ task[a].thread = task[b].thread
         /\ task[a].checkpoint = task[b].checkpoint
         /\ task[a].puts = 1 /\ task[b].puts = 1) =>
            LET N == VersionOf(task[a].checkpoint)
                now == store[task[a].thread]
            IN  /\ task[a].putCheckpoint.v = N + 1
                /\ task[b].putCheckpoint.v = N + 1
                /\ now.v = N + 1
                /\ Len(now.messages) = 2 * N + 2
                /\ now \in {task[a].putCheckpoint, task[b].putCheckpoint}
                /\ task[a].error = "none" /\ task[b].error = "none"

\* C11: whatever get returns for a thread, also while turns are in flight, is a
\* checkpoint whose version v comes with exactly 2v messages, each
\* user/assistant pair being the pair of a turn whose put has completed; the
\* text of a turn that has not put yet is in no checkpoint.
C11_VisibilityInvariant ==
    \A t \in Threads :
        LET m == historyOf(store[t])
            v == VersionOf(store[t])
        IN  /\ Len(m) = 2 * v
            /\ \A i \in 1..v :
                  \E k \in 1..Len(ledger[t]) :
                      /\ m[2 * i - 1] = HumanMessage(ledger[t][k].user)
                      /\ m[2 * i] = AIMessage(ledger[t][k].response)

\* The messages a thread holds after running the committed turns of entries
\* alone, one after another, from an empty store.
RECURSIVE RunAlone(_, _)
RunAlone(entries, n) ==
    IF n = 0 THEN <<>>
    ELSE newMessagesOf(RunAlone(entries, n - 1), entries[n].user, entries[n].response)

OtherThread(t) == IF t = "t1" THEN "t2" ELSE "t1"

\* C12: with turns running at once on the two threads, every thread's
\* checkpoint is the one its own committed turns produce when run alone, no
\* text of the other thread is in it, and a step changes what get returns for
\* a thread only when a turn of that thread puts.
C12_ThreadIsolation ==
    /\ [](\A t \in Threads :
            /\ historyOf(store[t]) = RunAlone(ledger[t], Len(ledger[t]))
            /\ VersionOf(store[t]) = Len(ledger[t])
            /\ store[t].present => store[t].id[1] = t
            /\ \A i \in 1..Len(historyOf(store[t])) :
                  /\ ~Includes(store[t].messages[i].content, ThreadText(OtherThread(t)))
                  /\ ~Includes(store[t].messages[i].content, ThreadFrag(OtherThread(t))))
    /\ [][\A t \in Threads :
            store'[t] # store[t] =>
                \E s \in Slots : /\ task[s].thread = t
                                 /\ task[s].pc = "saving"
                                 /\ task'[s].puts = 1]_vars

C12_Witness ==
    /\ task[1].thread = "t1"
    /\ task[1].pc = "saving"
    /\ Len(task[1].chunks) = 2
    /\ store["t1"] = task[1].checkpoint
    /\ task[2].thread = "t2"
    /\ task[2].pc = "done"
    /\ task[2].kind = "stream"
    /\ task[2].puts = 1
    /\ store["t2"] = task[2].putCheckpoint

\* C13: an addContext call made while no vector store is set ends with the
\* caller's promise rejected, on every surface: Chain, Agent, MemoryChain and
\* ChatBot.
C13_AddContextWithoutStoreFails ==
    (ctxCall.pc = "settled" /\ ~ctxCall.hadStore) => ctxCall.outer = "rejected"

\* C14: when chain.invoke fails inside MemoryChain.invoke, the turn calls put
\* not at all, the thread's checkpoint is the one read before the turn, and
\* the caller gets the error and no text.
C14_OneShotFailureDoesNotPersist ==
    \A s \in Slots :
        (task[s].kind = "invoke" /\ task[s].pc = "done" /\ task[s].exit = "failed") =>
            /\ task[s].puts = 0
            /\ ~task[s].putCheckpoint.present
            /\ store[task[s].thread] = task[s].checkpoint
            /\ task[s].error = "GenerationError"
            /\ task[s].result = <<>>
            /\ task[s].responseText = <<>>

C14_Witness ==
    \E s \in Slots :
        /\ task[s].kind = "invoke"
        /\ task[s].pc = "done"
        /\ task[s].exit = "failed"
        /\ task[s].checkpoint.present
        /\ task[s].checkpoint.v = 1
        /\ task[s].error = "GenerationError"

\* C15: the checkpoint a turn puts has the version one above the prior
\* checkpoint's (1 without a prior checkpoint), metadata.step is that same
\* version, id and timestamp are the prior checkpoint's when there is one and
\* minted otherwise (the id from the thread and a reading of the clock, the
\* timestamp from a reading not before that one), and the version hint is
\* the number of messages put.
C15_CommitConstruction ==
    \A s \in Slots :
        task[s].puts = 1 =>
            LET prior == task[s].checkpoint
                put == task[s].putCheckpoint
            IN  /\ Len(task[s].responseText) > 0
                /\ put.v = (IF prior.present THEN prior.v + 1 ELSE 1)
                /\ task[s].putStep = put.v
                /\ prior.present => (put.id = prior.id /\ put.ts = prior.ts)
                /\ ~prior.present =>
                        /\ Len(put.id) = 2
                        /\ put.id[1] = task[s].thread
                        /\ put.id[2] \in 1..clock
                        /\ put.ts \in put.id[2]..clock
                /\ task[s].putHint = Len(put.messages)
                /\ put.channel_version = Len(put.messages)

C15_Witness ==
    \E s \in Slots :
        /\ task[s].puts = 1
        /\ task[s].checkpoint.present
        /\ task[s].putCheckpoint.v = 2
        /\ task[s].putStep = 2
        /\ task[s].putHint = 4
        /\ task[s].putCheckpoint.id = <<"t1", 1>>
        /\ task[s].putCheckpoint.ts = 2

\* C16: a turn whose put failed ends with an error for its caller on every
\* path (stream completed, stream failed, stream abandoned, invoke): no final
\* text and no response are returned, and the put is not called again.
C16_StoreFailureSurfaces ==
    \A s \in Slots :
        /\ task[s].puts <= 1
        /\ task[s].putError # "none" =>
              /\ task[s].pc = "done"
              /\ task[s].puts = 1
              /\ task[s].error # "none"
              /\ task[s].result = <<>>
              /\ store[task[s].thread] = task[s].checkpoint

C16_Witness ==
    \E s \in Slots :
        /\ StreamDone(s)
        /\ task[s].exit = "abandoned"
        /\ Len(task[s].forwarded) = 1
        /\ task[s].checkpoint.present
        /\ task[s].putError = "StoreError"
        /\ task[s].error = "StoreError"

\* C17: at every point of a streaming turn the caller has received a prefix of
\* the fragments generation produces, in their order and each once, and every
\* fragment taken from generation so far has been handed to the caller (the
\* next one is requested only after that).
C17_FifoForwarding ==
    \A s \in Slots :
        task[s].kind \in {"stream", "agent"} =>
            /\ IsPrefix(task[s].forwarded, task[s].frags)
            /\ task[s].forwarded = task[s].chunks

C17_Witness ==
    \E s \in Slots :
        /\ impl = "CB"
        /\ task[s].pc = "streaming"
        /\ Len(task[s].frags) = 2
        /\ task[s].frags[1] # task[s].frags[2]
        /\ task[s].forwarded = task[s].frags

\* The turn of slot s is over and its text, unless empty, has been put.
Persisted(s) ==
    /\ task[s].pc = "done"
    /\ task[s].puts = 1 \/ Len(joinChunks(task[s].chunks)) = 0

\* C18 as stated: every streaming turn that has entered its loop eventually
\* is persisted (or is the empty no-op), also when its consumer stops asking
\* for fragments.
C18_EveryStreamingTurnPersists ==
    \A s \in Slots : (task[s].pc = "streaming") ~> Persisted(s)

\* C18 as amended: every streaming turn whose loop has been left, by the end
\* of generation, a generation error or the consumer's return(), eventually
\* is persisted (or is the empty no-op); and a turn still suspended in its
\* loop has put nothing.
C18_LeftLoopPersists ==
    /\ \A s \in Slots : (task[s].pc = "finally") ~> Persisted(s)
    /\ [](\A s \in Slots : task[s].pc = "streaming" => task[s].puts = 0)

C18_Witness ==
    \E s \in Slots :
        /\ Persisted(s)
        /\ task[s].exit = "abandoned"
        /\ Len(task[s].chunks) = 1
        /\ Len(task[s].frags) = 2
        /\ task[s].puts = 1

\* C19: the fragments of a fully iterated agent stream, concatenated in order,
\* are exactly the text invoke returns for the same final message content.
C19_AgentStreamEqualsInvoke ==
    \A s \in Slots :
        (task[s].kind = "agent" /\ task[s].pc = "done" /\ task[s].exit = "complete") =>
            /\ task[s].forwarded = task[s].frags
            /\ join(task[s].forwarded, <<>>) = agentInvokeResult(task[s].responseText)

\* C20: a streaming turn that completed normally returns, as the final value
\* of the stream, the in-order concatenation of the fragments it yielded.
C20_FinalValueIsConcatenation ==
    \A s \in Slots :
        (/\ task[s].kind \in {"stream", "agent"}
         /\ task[s].pc = "done"
         /\ task[s].exit = "complete") =>
            /\ task[s].error = "none"
            /\ task[s].result = join(task[s].forwarded, <<>>)

C20_Witness ==
    \E s \in Slots :
        /\ task[s].kind = "agent"
        /\ task[s].pc = "done"
        /\ task[s].exit = "complete"
        /\ Len(task[s].forwarded) = 2
        /\ task[s].result = <<"x", " ", "y", " ">>

\* C21: the input a streaming turn hands to generation is the transcript of the
\* prior checkpoint's messages followed by the new user turn, the new user
\* turn being rendered once (for an empty history: that single turn).
C21_GenerationInputShape ==
    \A s \in Slots :
        (task[s].kind = "stream" /\ task[s].genInput.key # "none") =>
            task[s].genInput.text =
                messagesToHistoryText(Append(historyOf(task[s].checkpoint),
                                             HumanMessage(task[s].input)))

\* C22: a turn reads the store exactly once, when it starts and before any
\* fragment is requested, and writes it at most once, after its loop; while it
\* streams it neither reads nor writes, and its commit is built on the
\* checkpoint of that one read.
C22_StoreReadOnceWrittenOnce ==
    \A s \in Slots :
        (task[s].kind = "stream" /\ task[s].genInput.key # "none") =>
            /\ task[s].gets = 1
            /\ task[s].puts <= 1
            /\ task[s].pc \in {"streaming", "finally"} => task[s].puts = 0
            /\ task[s].pc = "saving" => task[s].base = task[s].checkpoint

\* The errors the caller of the turn of slot s gets to see.
Observed(s) == {task[s].error} \ {"none"}

\* C23: when generation failed in mid-stream and the put of the commit failed
\* as well, the caller sees the store error and can still see that generation
\* failed.
C23_StoreErrorKeepsGenerationError ==
    \A s \in Slots :
        (/\ StreamDone(s)
         /\ task[s].exit = "failed"
         /\ task[s].putError = "StoreError") =>
            /\ "StoreError" \in Observed(s)
            /\ "GenerationError" \in Observed(s)

\* C24: an addContext call that fails because no vector store is set has no
\* effect: the step in which it fails leaves the add counter, the documents,
\* the checkpoint store and every turn as they were, and a failed call has
\* nothing pending that could add documents later.
C24_FailedAddContextHasNoEffect ==
    /\ [][(ctxCall'.inner = "rejected" /\ ~ctxCall'.hadStore
            /\ ctxCall.inner # "rejected") =>
            /\ times_of_added_context' = times_of_added_context
            /\ documents' = documents
            /\ vectorStore' = vectorStore
            /\ store' = store
            /\ task' = task
            /\ ledger' = ledger]_vars
    /\ []((ctxCall.inner = "rejected" /\ ~ctxCall.hadStore) => ctxCall.pc = "settled")

C24_Witness ==
    /\ ctxCall.pc = "settled"
    /\ ctxCall.inner = "rejected"
    /\ ctxCall.surface = "Agent"
    /\ documents = 2
    /\ times_of_added_context = 0
    /\ ~vectorStore

\* C25: the commit leaves what get returned at the start of the turn as it
\* was: the checkpoint and the message list the turn holds are the same before
\* and after its put, and what is put is another value, the old messages
\* followed by the two new ones.
C25_CommitDoesNotMutatePrior ==
    /\ [][\A s \in Slots :
            (task[s].pc = "saving" /\ task'[s].puts = 1) =>
                /\ task'[s].checkpoint = task[s].checkpoint
                /\ task'[s].historyMessages = task[s].historyMessages
                /\ task'[s].putCheckpoint # task[s].checkpoint]_vars
    /\ [](\A s \in Slots :
            task[s].puts = 1 =>
                /\ task[s].historyMessages = historyOf(task[s].checkpoint)
                /\ Len(task[s].putCheckpoint.messages) = Len(task[s].historyMessages) + 2
                /\ IsPrefix(task[s].historyMessages, task[s].putCheckpoint.messages))

C25_Witness ==
    \E s \in Slots :
        /\ impl = "MC1"
        /\ task[s].puts = 1
        /\ task[s].putError = "none"
        /\ task[s].checkpoint.present
        /\ Len(task[s].historyMessages) = 2
        /\ Len(store[task[s].thread].messages) = 4

\* The transcript as the specification words it: each message as its role
\* label, a colon and a blank, and its content; a blank line between messages.
LabelOf(role) ==
    CASE role = "user" -> "User: "
      [] role = "assistant" -> "Assistant: "
      [] OTHER -> "System: "

RECURSIVE TranscriptOf(_, _)
TranscriptOf(messages, n) ==
    IF n = 0 THEN <<>>
    ELSE (IF n = 1 THEN <<>> ELSE TranscriptOf(messages, n - 1) \o <<"\n\n">>)
         \o <<LabelOf(messages[n].role)>> \o messages[n].content

\* C26: the reconstructor renders the messages of the checkpoint in their
\* order as "<RoleLabel>: <content>", user as User, assistant as Assistant,
\* every other role as System, with a blank line between them; when get
\* returns no checkpoint it gives the empty list and the empty transcript and
\* no error.  (A get that rejects returns nothing; its error ends the turn.)
C26_TranscriptRendering ==
    (reconstruction.pc = "done" /\ reconstruction.error # "StoreError") =>
        /\ reconstruction.error = "none"
        /\ reconstruction.checkpoint.present =>
              reconstruction.historyMessages = reconstruction.checkpoint.messages
        /\ ~reconstruction.checkpoint.present =>
              (reconstruction.historyMessages = <<>> /\ reconstruction.historyText = <<>>)
        /\ reconstruction.historyText =
              TranscriptOf(reconstruction.historyMessages,
                           Len(reconstruction.historyMessages))

C26_Witness ==
    /\ reconstruction.pc = "done"
    /\ Len(reconstruction.historyMessages) = 2
    /\ reconstruction.historyMessages[1].role = "tool"
    /\ reconstruction.historyMessages[2].role = "assistant"
    /\ reconstruction.historyText = <<"System: ", "m1", "\n\n", "Assistant: ", "a", " ">>

\* The names in a tool-name listing.
Listed(a) == {toolListing(a)[i] : i \in 1..Len(toolListing(a))}
Configured(a) == {a.tools[i] : i \in 1..Len(a.tools)}

\* C27: after setContext(store, {name: N}) the agent's tool-name listing
\* contains N; after clearContext it no longer contains N (N not being the name
\* of a configured tool); the listing always contains every configured tool.
C27_ListingFollowsContext ==
    [][/\ \A name \in MetadataNames :
            AgentSetContext(name) => ragToolName(name) \in Listed(theAgent')
       /\ (AgentClearContext /\ theAgent.rag_tool \notin Configured(theAgent))
            => theAgent.rag_tool \notin Listed(theAgent')
       /\ Configured(theAgent') \subseteq Listed(theAgent')]_vars

\* C28: once the consumer has abandoned a stream, no further fragment is
\* requested from the generation collaborator, the collaborator's sequence is
\* closed, nothing is added to the accumulated text, and the text that is
\* persisted is the text accumulated (and forwarded) up to the abandonment.
C28_NothingAfterAbandonment ==
    /\ [](\A s \in Slots :
            (task[s].kind = "stream" /\ task[s].exit = "abandoned") =>
                /\ ~task[s].genOpen
                /\ task[s].requested = Len(task[s].forwarded)
                /\ task[s].puts = 1 =>
                      Last(task[s].putCheckpoint.messages)
                          = AIMessage(joinChunks(task[s].forwarded)))
    /\ [][\A s \in Slots :
            (task[s].exit = "abandoned" /\ task'[s].exit = "abandoned") =>
                /\ task'[s].requested = task[s].requested
                /\ task'[s].chunks = task[s].chunks]_vars

C28_Witness ==
    \E s \in Slots :
        /\ StreamDone(s)
        /\ task[s].exit = "abandoned"
        /\ task[s].requested = 1
        /\ Len(task[s].frags) = 2
        /\ task[s].puts = 1
        /\ ~task[s].genOpen

\* C29: on an Agent constructed with a schema every invoke returns the
\* schema-structured result and no stream has its own text structured, however
\* invoke and stream calls on the instance interleave.  Calls made with
\* debug: true, which return the raw result by design, are left aside.
C29_InvokeAlwaysStructured ==
    theAgent.schema =>
        \A c \in AgentCalls :
            /\ (agentCalls[c].kind = "invoke" /\ agentCalls[c].pc = "returned"
                    /\ ~agentCalls[c].debug)
                    => agentCalls[c].response = "structured"
            /\ (agentCalls[c].kind = "stream" /\ agentCalls[c].response # "none"
                    /\ ~agentCalls[c].debug)
                    => agentCalls[c].response = "text"

\* A stream call is in flight: its body has started and has not been left.
StreamInFlight(c) ==
    /\ agentCalls[c].kind = "stream"
    /\ agentCalls[c].pc \in {"awaiting", "structuring", "yielding"}

\* C30: Agent.stream sets should_use_schema back to true on every exit path
\* (the words ran out, invoke raised, the consumer closed the stream), so that
\* the flag is true whenever no stream is in flight on the instance.
C30_FlagRestored ==
    /\ []((\A c \in AgentCalls : ~StreamInFlight(c)) => theAgent.should_use_schema)
    /\ [][\A c \in AgentCalls :
            (StreamInFlight(c) /\ agentCalls'[c].pc \in {"done", "thrown"})
                => theAgent'.should_use_schema]_vars

C30_Witness ==
    \E c, d \in AgentCalls :
        /\ agentCalls[c].kind = "stream" /\ agentCalls[c].exit = "abandoned"
        /\ agentCalls[c].yielded = 1
        /\ agentCalls[d].kind = "stream" /\ agentCalls[d].exit = "failed"
        /\ theAgent.should_use_schema

\* C31: in every state of an Agent vectorStore and rag_tool are both set or
\* both unset; hasContext becomes true by setContext, false by clearContext and
\* is changed by nothing else; and an addContext call that succeeds was made in
\* a state where both were set.
C31_StoreAndToolTogether ==
    /\ [](/\ theAgent.vectorStore <=> theAgent.rag_tool # NoTool
          /\ hasContext(theAgent) <=> theAgent.vectorStore
          /\ \A c \in AgentCalls :
                (agentCalls[c].kind = "addContext" /\ agentCalls[c].pc = "returned")
                    => agentCalls[c].hadStore)
    /\ [][/\ (\E name \in MetadataNames : AgentSetContext(name)) => hasContext(theAgent')
          /\ AgentClearContext => ~hasContext(theAgent')
          /\ (~(\E name \in MetadataNames : AgentSetContext(name)) /\ ~AgentClearContext)
                => (hasContext(theAgent') <=> hasContext(theAgent))]_vars

C31_Witness ==
    /\ ~hasContext(theAgent)
    /\ theAgent.rag_tool = NoTool
    /\ \E c, d \in AgentCalls :
        /\ agentCalls[c].kind = "addContext" /\ agentCalls[c].pc = "returned"
        /\ agentCalls[d].kind = "addContext" /\ agentCalls[d].pc = "thrown"
        /\ ~agentCalls[d].hadStore

\* C32: clearContext puts a Chain or Agent back into its initial no-context
\* state: the add counter is 0 and no vector store is set, so that the next
\* addContext fails with the no-vector-store error and, after a setContext, the
\* next addContext counts 1, however many additions preceded the clear.
C32_ClearContextResets ==
    /\ [][(\E surface \in {"Chain", "Agent"} : ClearContext(surface)) =>
            /\ ~vectorStore'
            /\ times_of_added_context' = 0]_vars
    /\ [](~vectorStore => times_of_added_context = 0)
    /\ [][\A surface \in {"Chain", "Agent"}, data \in Data :
            (AddContext(surface, data) /\ times_of_added_context = 0) =>
                IF vectorStore
                THEN times_of_added_context' = 1 /\ ctxCall'.inner = "pending"
                ELSE times_of_added_context' = 0 /\ ctxCall'.inner = "rejected"]_vars

C32_Witness ==
    /\ documents = 3
    /\ times_of_added_context = 1
    /\ vectorStore
    /\ ctxCall.pc = "settled"
    /\ ctxCall.inner = "resolved"
    /\ ctxCall.surface = "Chain"
    /\ Len(ctxCall.data) = 1

\* Two of the tools have names that are equal ignoring case.
HoldsTwoUnderOneName(tools) ==
    \E i, j \in 1..Len(tools) :
        i # j /\ toLowerCase(tools[i].name) = toLowerCase(tools[j].name)

\* C33: a constructed ToolRegistry never holds two tools whose names are equal
\* ignoring case: construction with such a pair fails, and whatever addTool,
\* deleteTool and updateTool calls follow, getTool throws the
\* several-tools-under-one-name error for no name.
C33_NoTwoToolsUnderOneName ==
    registry.built =>
        /\ ~HoldsTwoUnderOneName(registry.tools)
        /\ \A name \in RegNames : getTool(registry.tools, name).error # "several"

\* The tools of a registry that are not found under name, in their order.
OtherTools(tools, name) == SelectSeq(tools, LAMBDA tool : ~IsNamed(name, tool))

\* C34: after deleteTool(name) has returned, getTool(name) returns undefined,
\* for every registry state and every name, and the tools under other names
\* are in place in their original order.
C34_DeletedToolIsGone ==
    [][\A name \in RegNames :
        RegistryDeleteTool(name) =>
            /\ getTool(registry'.tools, name)
                    = [outcome |-> "returned", error |-> "none", found |-> <<>>]
            /\ OtherTools(registry'.tools, name) = OtherTools(registry.tools, name)]_vars

\* C35: updateTool(name, tool) with name different from tool.name throws and
\* leaves the registry as it was; with name equal to tool.name and a tool
\* registered under that name the registered names and the number of tools
\* are as before and getTool(name) returns the new tool.
NamesOf(tools) == {tools[i].name : i \in 1..Len(tools)}
C35_UpdateToolFrame ==
    [][\A name \in RegNames, tool \in ToolInputs :
        RegistryUpdateTool(name, tool) =>
            IF name # tool.name
            THEN regCall'.outcome = "thrown" /\ registry' = registry
            ELSE (name \in NamesOf(registry.tools)) =>
                    /\ regCall'.outcome = "returned"
                    /\ NamesOf(registry'.tools) = NamesOf(registry.tools)
                    /\ Len(registry'.tools) = Len(registry.tools)
                    /\ getTool(registry'.tools, name).found
                            = <<asRegistered(tool)>>]_vars

\* The attempts of the running call that failed.
FailedAttempts(call) == SelectSeq(call.attempts, LAMBDA end : end # "ok")

\* The errors structure() raises on its way to the loop.
SetupErrors ==
    {"CHATGROQ_API_KEY is not set", "stringifyThrew", "parserThrew",
     "partialRejected"}

\* What structure() awaits settles: partial(...) and every chain.invoke
\* resolve or reject. The code does not enforce it.
AwaitsSettle ==
    /\ WF_vars(\E ok \in BOOLEAN : StructurePrepared(ok))
    /\ WF_vars(\E end \in AttemptEnds : StructureAttempt(end))

\* C36 as stated, the part about raising: structure() raises an error exactly
\* when all r + 1 attempts failed.
C36_RaisesOnlyAfterAllAttempts ==
    structCall.pc = "thrown" <=>
        Len(FailedAttempts(structCall)) = structCall.retries + 1

\* C36 as stated, the part about termination: a call that has begun an
\* attempt returns or raises.
C36_AlwaysTerminates ==
    (structCall.pc = "attempting") ~> (structCall.pc \in {"returned", "thrown"})

\* C36 as stated: structure() with retries = r calls the formatting chain at
\* most r + 1 times, returns the result of the first attempt that succeeds and
\* attempts nothing after it, raises its error exactly when all r + 1 attempts
\* failed, and always terminates.
C36_AsStated ==
    /\ [](/\ Len(structCall.attempts) <= structCall.retries + 1
          /\ \A k \in 1..(Len(structCall.attempts) - 1) :
                structCall.attempts[k] # "ok"
          /\ structCall.pc = "returned" <=>
                (Len(structCall.attempts) >= 1 /\ Last(structCall.attempts) = "ok")
          /\ structCall.pc = "returned" => structCall.result = structCall.data
          /\ C36_RaisesOnlyAfterAllAttempts)
    /\ C36_AlwaysTerminates

\* C36, amended: structure() with retries = r calls the formatting chain at
\* most r + 1 times, returns the result of the first attempt that succeeds and
\* attempts nothing after it. It raises an error in exactly two cases: on its
\* way to the loop (no llm passed and CHATGROQ_API_KEY unset, data that
\* JSON.stringify cannot write, a parser or prompt that cannot be built), and
\* then it has made no attempt; or after the loop, when all r + 1 attempts
\* failed. Provided what it awaits settles, a call that got as far as its
\* first await returns or raises.
C36_StructureRetries ==
    /\ [](/\ Len(structCall.attempts) <= structCall.retries + 1
          /\ \A k \in 1..(Len(structCall.attempts) - 1) :
                structCall.attempts[k] # "ok"
          /\ structCall.pc = "returned" <=>
                (Len(structCall.attempts) >= 1 /\ Last(structCall.attempts) = "ok")
          /\ structCall.pc = "returned" => structCall.result = structCall.data
          /\ structCall.pc = "thrown" <=>
                structCall.error \in SetupErrors \cup {"failedAfterAttempts"}
          /\ structCall.error = "CHATGROQ_API_KEY is not set" =>
                structCall.llm = Undefined
          /\ structCall.error = "stringifyThrew" =>
                stringifyThrows(structCall.data)
          /\ structCall.error \in SetupErrors => structCall.attempts = <<>>
          /\ structCall.error = "failedAfterAttempts" <=>
                Len(FailedAttempts(structCall)) = structCall.retries + 1)
    /\ AwaitsSettle =>
          ((structCall.pc \in {"preparing", "attempting"})
              ~> (structCall.pc \in {"returned", "thrown"}))

C36_Witness ==
    /\ structCall.pc = "thrown"
    /\ structCall.retries = 2
    /\ structCall.error = "failedAfterAttempts"
    /\ structCall.attempts = <<"parseThrew", "invokeRejected", "invokeRejected">>

\* C37: a fully iterated Agent.stream has yielded no fragment when the final
\* response text is empty or consists of spaces only, and otherwise one
\* fragment per space-separated word of the text, the word followed by one
\* space, in the order of the words.
C37_OneFragmentPerWord ==
    wordStream.pc = "done" =>
        IF \A i \in 1..Len(wordStream.content) : wordStream.content[i] = " "
        THEN wordStream.yielded = <<>>
        ELSE LET words == split(wordStream.content, " ")
             IN  wordStream.yielded = [i \in 1..Len(words) |-> words[i] \o <<" ">>]

\* C38: a constructed ChatBot, whatever props it was constructed with, has
\* exactly one of chain and agent set, and chat never takes the branch that
\* throws the neither-chain-nor-agent error.
C38_ExactlyOneOfChainAndAgent ==
    chatBot.built =>
        /\ (chatBot.chain # Undefined) # (chatBot.agent # Undefined)
        /\ chatBot.chat # "neither"

====
